---- MODULE Spec2Model ----
(***************************************************************************)
(* MCP Sentry: the tool-execution bridge.                                  *)
(*                                                                         *)
(*   Process Bridge    apps/gateway/src/executor.ts   (class MCPExecutor)  *)
(*   Session Gateway   apps/gateway/src/index.ts                           *)
(*   Discovery Runner  scripts/inspector.ts                                *)
(*                                                                         *)
(* Each component has its own specification over the shared variable set;  *)
(* the variables of the other components stay at their initial values.     *)
(* JavaScript runs one event handler at a time and runs the promise        *)
(* continuations it schedules (microtasks) before the next event, so one   *)
(* action is one event handler together with the continuations it wakes.   *)
(***************************************************************************)
EXTENDS Integers, Sequences, FiniteSets, TLC

(***************************************************************************)
(* Bounds                                                                  *)
(***************************************************************************)
\* number of MCPExecutor instances (one per invocation)
NumExec == 1
\* most lines the tool writes that arrive in one 'data' event
MaxChunkLines == 2
\* number of client connections to GET /sse
NumConn == 1
\* number of tool registrations in the tools table
NumTools == 2
\* number of prepareTool calls
NumCalls == 2
\* most capability descriptors a tool answers tools/list with
MaxDescriptors == 2
\* number of HTTP requests made to the HTTP wrapper
NumHttp == 2
\* the last reading of the millisecond clock of the HTTP wrapper
MaxClock == 2

Execs == 1..NumExec

(***************************************************************************)
(* Downstream tool protocol: one line of the tool's standard output.       *)
(* id 0 answers initialize, id 100 answers tools/call (executor.ts:171),   *)
(* id 1 answers tools/list (inspector.ts:223).  kind "result" is a line    *)
(* with a truthy result field, "error" one with an error field and no      *)
(* result, "junk" a line JSON.parse rejects.                               *)
(***************************************************************************)
InitId == 0
CallId == 100
ListId == 1

Lines == [id : {InitId, ListId, CallId}, kind : {"result", "error"}]
           \cup {[id |-> -1, kind |-> "junk"]}

Chunks == UNION {[1..n -> Lines] : n \in 1..MaxChunkLines}

\* n copies of message m
RECURSIVE Repeat(_, _)
Repeat(m, n) == IF n = 0 THEN <<>> ELSE <<m>> \o Repeat(m, n - 1)

VARIABLES
  \* ---- Process Bridge, per MCPExecutor instance ----
  epc,           \* position of executeTool: idle, handshake, calling, settled
  process,       \* this.process: "null" or "held"
  child,         \* the OS process: none, running, exited ('close' not yet
                 \* delivered), closed
  exitCode,      \* the code the child ended with: none, 0, 1, null (ended
                 \* by a signal)
  killSent,      \* process.kill() has been called on the child
  isInitialized, \* this.isInitialized
  listener,      \* the 'data' listener on stdout: none, handshake, call
  hsTimer,       \* the 15 s timer of performHandshake: unset, armed, fired
  safetyTimer,   \* the 60 s timer of startServer: unset, armed, fired
  stdinLog,      \* messages written to the child's standard input, in order
  outcome,       \* how executeTool settled, "none" while it has not
  source,        \* the children whose output the instance's 'data' listeners
                 \* acted on
  \* ---- the gateway's Node process ----
  gatewayUp,     \* FALSE once an uncaught exception has ended it
  \* ---- Discovery Runner, fetchToolsFromRunningServer ----
  ipc,           \* the returned promise: idle, pending, resolved, rejected
  iChild,        \* serverProcess: none, spawnFailed ('error' not yet
                 \* delivered), failed, running, exited
  iKillSent,     \* serverProcess.kill() has been called
  iInit,         \* isInitialized
  iTimer,        \* the 20 s timer: unset, armed, fired
  iOutcome,      \* none, tools, spawnError, crash, timeout
  \* ---- Discovery Runner, main ----
  rpc,           \* idle, secrets, fetch, zip, upload, update (awaiting
                 \* that step), failing (awaiting the update of the catch
                 \* block), done (main returned), exited (process.exit)
  project,       \* what the cloned repository holds
  rTools,        \* the list in the tool's answer to tools/list, once read
  reg,           \* the registration row of TOOL_ID
  rDone,         \* the steps the run has executed
  rFailed,       \* the steps that failed in the run
  rMsg,          \* err.message in the catch block
  rWrote,        \* the columns of the row the run has written
  uploaded,      \* the run's archive is in the blob store
  iResult,       \* the tools the promise resolved with
  \* ---- one invoke, from the resolved tool to the data request ----
  mStage,        \* resolved, constructed, spawned, called
  mArgs,         \* request.params.arguments
  mConfig,       \* foundTool.configuration
  mSecrets,      \* the tool's rows of tool_secrets, as a map
  mProcEnv,      \* process.env of the gateway
  mExecEnv,      \* the env handed to the MCPExecutor constructor
  mCallArgs,     \* the args handed to executeTool
  mSpawnEnv,     \* the env option of spawn
  mSentArgs,     \* params.arguments of the tools/call request written
  \* ---- Session Gateway ----
  tools,         \* the tools table: owner, is_public, status per tool id
  cPhase,        \* per connection: new, auth (key lookup in flight), open
                 \* (the /sse handler ran), denied401, denied403, denied500
  cKey,          \* requireApiKey's apiKey while the lookup is in flight
  cUser,         \* req.user.id, NoUser while unset
  cSock,         \* res: open, closed ('close' was emitted)
  sessions,      \* the sessions map: per session id, the userId its request
                 \* handlers captured, NoUser when the id is not in the map
  handlers,      \* connections for which a transport and a Server were built
  lookups,       \* per connection, how many api_keys lookups were made
  lastResp,      \* the outcome of the last POST /messages
  \* ---- Provisioner ----
  bundles,       \* the blob store: the runtime family of each tool's bundle
  cache,         \* runtime_cache/<toolId>: exists, extracted, deps
  ppc,           \* per prepareTool call: idle, readdir, removing, ensuring,
                 \* downloading, installing, returned, failed
  pTool,         \* the toolId of the call, 0 before it is made
  pOps,          \* what the call did: remove, download, extract, install
  pRet,          \* the path the call returned, NoPath while it has not
  pErr,          \* the step the call failed in, "none" otherwise
  \* ---- one invocation seen from the tool's side of the pipes ----
  cut,           \* the line of the tool's standard output whose head an
                 \* earlier read delivered, NoLine on a line boundary
  lastRead,      \* what the last read of standard output held
  errText,       \* whether the tool has written to standard error
  reply,         \* the value executeTool resolved with and what the
                 \* CallTool handler made of it
  pCmd,          \* per prepareTool call: the install commands that failed
                 \* and the one whose failure ended the call
  secretsFetch,  \* per invoke, getSecrets of the CallTool handler: none
                 \* (not returned), rows (the query gave rows), error (the
                 \* query gave an error and no data)
  \* ---- HTTP wrapper (packages/bridge/index.ts) ----
  mcpProcess,    \* the one tool process: running, exited
  initSent,      \* the initialize request was written to the tool
  wrapperReady,  \* isInitialized of the wrapper
  clock,         \* Date.now()
  responseCallbacks, \* per request id, the HTTP request whose callback the
                 \* map holds, 0 when the map has no entry for the id
  toolInbox,     \* the HTTP requests whose message the tool has read and
                 \* not answered
  http           \* per HTTP request: st (new, pending, refused), id (its
                 \* requestId), timer, and the responses written to res

bridgeVars == <<epc, process, child, exitCode, killSent, isInitialized, listener,
                hsTimer, safetyTimer, stdinLog, outcome, source>>
insVars == <<ipc, iChild, iKillSent, iInit, iTimer, iOutcome>>
gwVars == <<tools, cPhase, cKey, cUser, cSock, sessions, handlers, lookups,
           lastResp>>
runVars == <<rpc, project, rTools, reg, rDone, rFailed, rMsg, rWrote, uploaded,
             iResult>>
nodeVars == <<gatewayUp>>
provVars == <<bundles, cache, ppc, pTool, pOps, pRet, pErr>>
mergeVars == <<mStage, mArgs, mConfig, mSecrets, mProcEnv, mExecEnv,
               mCallArgs, mSpawnEnv, mSentArgs>>
wrapVars == <<mcpProcess, initSent, wrapperReady, clock, responseCallbacks,
              toolInbox, http>>
wireVars == <<cut, lastRead, errText, reply, pCmd, secretsFetch, wrapVars>>

\* what the actions of one component leave alone
notBridge == <<insVars, runVars, mergeVars, gwVars, provVars, wireVars>>
notInspector == <<bridgeVars, nodeVars, mergeVars, gwVars, provVars, wireVars>>
notMerge == <<bridgeVars, nodeVars, insVars, runVars, gwVars, provVars,
              wireVars>>
notGateway == <<bridgeVars, nodeVars, insVars, runVars, mergeVars, provVars,
                wireVars>>
notProvisioner == <<bridgeVars, nodeVars, insVars, runVars, mergeVars, gwVars,
                    wireVars>>

(***************************************************************************)
(* Process Bridge                                                          *)
(***************************************************************************)
\* the instances in E as their constructor leaves them, nothing spawned
Constructed(E) ==
  /\ epc = [e \in E |-> "idle"]
  /\ process = [e \in E |-> "null"]
  /\ child = [e \in E |-> "none"]
  /\ exitCode = [e \in E |-> "none"]
  /\ killSent = [e \in E |-> FALSE]
  /\ isInitialized = [e \in E |-> FALSE]
  /\ listener = [e \in E |-> "none"]
  /\ hsTimer = [e \in E |-> "unset"]
  /\ safetyTimer = [e \in E |-> "unset"]
  /\ stdinLog = [e \in E |-> <<>>]
  /\ outcome = [e \in E |-> "none"]
  /\ source = [e \in E |-> {}]

\* the gateway is listening (index.ts:174)
Listening == gatewayUp = TRUE

\* a kill() that never signals the child
killCallsNever(p) == FALSE

\* kill(): whether process.kill() is called, given this.process
killCalls(p) == p = "held"

\* kill(): this.process afterwards
killProcess(p) == "null"

\* a kill() placed after the await of callTool instead of in a finally block:
\* it runs only when the invocation resolves
finallyProcessOnSuccess(p, out) == IF out = "result" THEN killProcess(p) ELSE p

\* executeTool's finally block: this.process after the invocation settled
\* with outcome out
finallyProcess(p, out) == killProcess(p)

\* executeTool's finally block: whether it calls process.kill()
finallyKills(p, out) == killCalls(p)

\* an executeTool that starts over when the handshake failed
afterSettlingRetry(out) ==
  IF out \in {"crash", "handshakeTimeout"} THEN "idle" ELSE "settled"

\* an executor kept in a pool: once settled it serves the next invoke
afterSettlingPooled(out) == "idle"

\* executeTool has no loop: whatever the outcome, it settles
afterSettling(out) == "settled"

\* the promise awaited by executeTool settles with outcome out; the finally
\* block runs and executeTool's own promise settles
Settle(e, out) ==
  /\ epc' = [epc EXCEPT ![e] = afterSettling(out)]
  /\ outcome' = [outcome EXCEPT ![e] = out]
  /\ process' = [process EXCEPT ![e] = finallyProcess(process[e], out)]
  /\ killSent' = [killSent EXCEPT ![e] = @ \/ finallyKills(process[e], out)]

\* a process field shared by the instances: every listener is registered
\* on the standard output of the first child
stdoutShared(e) == CHOOSE f \in DOMAIN child : \A g \in DOMAIN child : f <= g

\* this.process.stdout: the standard output the listeners of instance e
\* are registered on, that of the child the instance spawned itself
stdoutOf(e) == e

\* this.process?.stdin?.write(...) with this.process p and the child in
\* state c: whether the write ends in an uncaught 'error' event.  A write
\* to a child that has ended fails with EPIPE unless a descendant of the
\* shell still holds the pipe; neither stdin nor the child has an 'error'
\* listener
stdinWriteErrors(c, p) ==
  IF p = "held" /\ c \in {"exited", "closed"} THEN BOOLEAN ELSE {FALSE}

\* handshake onData: the line completes the handshake
isInitResult(l) == l.id = InitId /\ l.kind = "result"

\* a callTool that takes any answer that is not the handshake's
isCallResponseAnyId(l) == l.id \in {ListId, CallId}

\* callTool onData: the line is the answer to the data request
isCallResponse(l) == l.id = CallId

\* handshake onData: how many lines of chunk c complete the handshake
countInitResults(c) == Len(SelectSeq(c, isInitResult))

\* callTool onData: index of the first line of chunk c that answers the data
\* request, 0 when there is none
firstCallResponse(c) ==
  IF \E i \in 1..Len(c) : isCallResponse(c[i])
  THEN CHOOSE i \in 1..Len(c) :
         isCallResponse(c[i]) /\ \A j \in 1..(i - 1) : ~isCallResponse(c[j])
  ELSE 0

\* a callTool that resolves with whatever answers the data request
callOutcomeResolves(l) == "result"

\* callTool onData: the outcome a matching line settles the invocation with
callOutcome(l) == IF l.kind = "error" THEN "toolError" ELSE "result"

\* executeTool up to its first suspension: startServer, then
\* performHandshake's synchronous part
Launch(e) ==
  /\ gatewayUp
  /\ epc[e] = "idle"
  /\ \E spawnThrows \in BOOLEAN :
       IF spawnThrows
       THEN /\ Settle(e, "spawnError")
            /\ UNCHANGED <<child, exitCode, isInitialized, listener, hsTimer,
                           safetyTimer, stdinLog, source>>
       ELSE /\ process' = [process EXCEPT ![e] = "held"]
            /\ child' = [child EXCEPT ![e] = "running"]
            /\ safetyTimer' = [safetyTimer EXCEPT ![e] = "armed"]
            /\ listener' = [listener EXCEPT ![e] = "handshake"]
            /\ stdinLog' = [stdinLog EXCEPT ![e] = Append(@, "initialize")]
            /\ hsTimer' = [hsTimer EXCEPT ![e] = "armed"]
            /\ epc' = [epc EXCEPT ![e] = "handshake"]
            /\ UNCHANGED <<exitCode, killSent, isInitialized, outcome, source>>

ExecuteTool(e) ==
  /\ Launch(e)
  /\ UNCHANGED <<nodeVars, notBridge>>

\* performHandshake's onData on one 'data' event, followed (when it resolved
\* the pending handshake) by callTool's synchronous part
HandshakeData(e, c) ==
  LET n == countInitResults(c)
      notes == IF process[e] = "held" THEN Repeat("initialized", n) ELSE <<>>
  IN IF n = 0
     THEN UNCHANGED <<bridgeVars, nodeVars>>
     ELSE /\ isInitialized' = [isInitialized EXCEPT ![e] = TRUE]
          /\ \E err \in stdinWriteErrors(child[e], process[e]) :
               gatewayUp' = ~err
          /\ source' = [source EXCEPT ![e] = @ \cup {stdoutOf(e)}]
          /\ IF epc[e] # "handshake"
             THEN \* resolve() on a promise that is already settled
                  /\ listener' = [listener EXCEPT ![e] = "none"]
                  /\ stdinLog' = [stdinLog EXCEPT ![e] = @ \o notes]
                  /\ UNCHANGED <<epc, process, killSent, outcome>>
             ELSE IF process[e] # "held"
             THEN \* callTool: 'Process died'
                  /\ listener' = [listener EXCEPT ![e] = "none"]
                  /\ stdinLog' = [stdinLog EXCEPT ![e] = @ \o notes]
                  /\ Settle(e, "processDied")
             ELSE /\ listener' = [listener EXCEPT ![e] = "call"]
                  /\ stdinLog' = [stdinLog EXCEPT ![e] = (@ \o notes) \o <<"call">>]
                  /\ epc' = [epc EXCEPT ![e] = "calling"]
                  /\ UNCHANGED <<process, killSent, outcome>>
          /\ UNCHANGED <<child, exitCode, hsTimer, safetyTimer>>

\* callTool's onData on one 'data' event
CallData(e, c) ==
  LET i == firstCallResponse(c)
  IN IF i = 0
     THEN UNCHANGED <<bridgeVars, nodeVars>>
     ELSE /\ listener' = [listener EXCEPT ![e] = "none"]
          /\ UNCHANGED nodeVars
          /\ source' = [source EXCEPT ![e] = @ \cup {stdoutOf(e)}]
          /\ IF epc[e] = "calling"
             THEN Settle(e, callOutcome(c[i]))
             ELSE UNCHANGED <<epc, process, killSent, outcome>>
          /\ UNCHANGED <<child, exitCode, isInitialized, hsTimer, safetyTimer,
                         stdinLog>>

\* the two onData handlers: what they take from chunk c, the number of
\* lines that complete the handshake and the outcome of the first answer to
\* the data request
bridgeHolds(c) ==
  <<countInitResults(c),
    IF firstCallResponse(c) = 0 THEN "none"
    ELSE callOutcome(c[firstCallResponse(c)])>>

\* one chunk for each thing the handlers can take from a chunk
HeldChunks ==
  {CHOOSE c \in Chunks : bridgeHolds(c) = h : h \in {bridgeHolds(c) : c \in Chunks}}

\* a 'data' event on the standard output a listener of instance e is
\* registered on; what the handlers do depends on the chunk through
\* bridgeHolds only
OnData(e) ==
  /\ gatewayUp
  /\ child[stdoutOf(e)] \in {"running", "exited"}
  /\ listener[e] # "none"
  /\ \E c \in HeldChunks :
       IF listener[e] = "handshake" THEN HandshakeData(e, c) ELSE CallData(e, c)
  /\ UNCHANGED notBridge

\* a reject that also overrides a promise that has settled
rejectSettlesAlways(pc) == TRUE

\* reject() of the handshake promise: it settles executeTool only while the
\* handshake is pending, a second settlement of a promise is ignored
rejectSettles(pc) == pc = "handshake"

\* the callback of performHandshake's setTimeout
HandshakeTimeout(e) ==
  /\ gatewayUp
  /\ hsTimer[e] = "armed"
  /\ hsTimer' = [hsTimer EXCEPT ![e] = "fired"]
  /\ IF ~isInitialized[e]
     THEN IF rejectSettles(epc[e])
          THEN /\ killSent' = [killSent EXCEPT ![e] = @ \/ killCalls(process[e])]
               /\ epc' = [epc EXCEPT ![e] = afterSettling("handshakeTimeout")]
               /\ outcome' = [outcome EXCEPT ![e] = "handshakeTimeout"]
               /\ process' = [process EXCEPT ![e] = killProcess(process[e])]
          ELSE /\ killSent' = [killSent EXCEPT ![e] = @ \/ killCalls(process[e])]
               /\ process' = [process EXCEPT ![e] = killProcess(process[e])]
               /\ UNCHANGED <<epc, outcome>>
     ELSE UNCHANGED <<epc, process, killSent, outcome>>
  /\ UNCHANGED <<child, exitCode, isInitialized, listener, safetyTimer,
                 stdinLog, source>>
  /\ UNCHANGED <<nodeVars, notBridge>>

\* the callback of startServer's setTimeout; it was set before the 15 s
\* timer in the same turn, so it runs after that one
SafetyTimeout(e) ==
  /\ gatewayUp
  /\ safetyTimer[e] = "armed"
  /\ hsTimer[e] # "armed"
  /\ safetyTimer' = [safetyTimer EXCEPT ![e] = "fired"]
  /\ IF process[e] = "held"
     THEN /\ killSent' = [killSent EXCEPT ![e] = @ \/ killCalls(process[e])]
          /\ process' = [process EXCEPT ![e] = killProcess(process[e])]
     ELSE UNCHANGED <<process, killSent>>
  /\ UNCHANGED <<epc, child, exitCode, isInitialized, listener, hsTimer,
                 stdinLog, outcome, source>>
  /\ UNCHANGED <<nodeVars, notBridge>>

\* the codes a child can end with; null when a signal ended it
ExitCodes == {"0", "1", "null"}

\* the child process ends, of its own accord or because it was signalled
ChildExit(e) ==
  /\ gatewayUp
  /\ child[e] = "running"
  /\ child' = [child EXCEPT ![e] = "exited"]
  /\ \E code \in ExitCodes : exitCode' = [exitCode EXCEPT ![e] = code]
  /\ UNCHANGED <<epc, process, killSent, isInitialized, listener, hsTimer,
                 safetyTimer, stdinLog, outcome, source>>
  /\ UNCHANGED <<nodeVars, notBridge>>

\* a 'close' handler that never rejects
crashRejectsNever(init) == FALSE

\* the 'close' handler registered by performHandshake: whether it rejects
crashRejects(init) == ~init

OnClose(e) ==
  /\ gatewayUp
  /\ child[e] = "exited"
  /\ child' = [child EXCEPT ![e] = "closed"]
  /\ IF crashRejects(isInitialized[e]) /\ epc[e] = "handshake"
     THEN Settle(e, "crash")
     ELSE UNCHANGED <<epc, process, killSent, outcome>>
  /\ UNCHANGED <<exitCode, isInitialized, listener, hsTimer, safetyTimer,
                 stdinLog, source>>
  /\ UNCHANGED <<nodeVars, notBridge>>

(***************************************************************************)
(* One invocation seen from the tool's side of the pipes: what the tool    *)
(* writes to standard output and standard error, how the pipe cuts the     *)
(* output into reads, and what the CallTool handler makes of the value     *)
(* executeTool resolves with (index.ts:122-125).                           *)
(***************************************************************************)
\* an answer to the data request that carries neither a result nor an error
Bare == [id |-> CallId, kind |-> "bare"]

\* a notification: a JSON message without an id (json.id is undefined,
\* written -2 here)
Notification == [id |-> -2, kind |-> "notification"]

Replies == Lines \cup {Bare, Notification}

Junk == [id |-> -1, kind |-> "junk"]

NoLine == [id |-> -1, kind |-> "none"]

\* the lines whose cutting is followed: the answers to the two requests
CutLines == {l \in Replies : l.id \in {InitId, CallId}}

\* one piece of a read: a whole line, or the head or the tail of a line the
\* pipe cut in the middle of its text
Pieces == [line : Replies, part : {"whole", "head", "tail"}]

\* the reads that can follow when the read before cut the line pending: at
\* most MaxChunkLines pieces, the tail of the pending line first, and
\* possibly the head of a further line last
ReadsAfter ==
  [pending \in CutLines \cup {NoLine} |->
     {r \in UNION {[1..n -> Pieces] : n \in 1..MaxChunkLines} :
        /\ \A n \in 1..Len(r) :
             /\ r[n].part = "tail" <=> (n = 1 /\ pending # NoLine)
             /\ r[n].part = "tail" => r[n].line = pending
             /\ r[n].part = "head" => (n = Len(r) /\ r[n].line \in CutLines)}]

\* the reads when the pipe cuts on line boundaries only
WholeReads ==
  {[n \in DOMAIN c |-> [line |-> c[n], part |-> "whole"]] :
     c \in UNION {[1..n -> Replies] : n \in 1..MaxChunkLines}}

\* data.toString().split('\n') and JSON.parse on one piece: part of the text
\* of a JSON object is no JSON text
parsePiece(p) == IF p.part = "whole" THEN p.line ELSE Junk

\* the lines the 'data' handlers loop over for read r
asChunk(r) == [n \in 1..Len(r) |-> parsePiece(r[n])]

\* the line read r leaves cut
cutAfter(r) == IF r[Len(r)].part = "head" THEN r[Len(r)].line ELSE NoLine

\* read r holds a whole line with id 0 and a result
holdsInit(r) ==
  \E n \in 1..Len(r) :
    r[n].part = "whole" /\ r[n].line.id = InitId /\ r[n].line.kind = "result"

\* the kind of the first whole line of read r with the id of the data
\* request, "none" when it holds no such line
firstAnswer(r) ==
  LET at == {n \in 1..Len(r) : r[n].part = "whole" /\ r[n].line.id = CallId}
  IN IF at = {} THEN "none"
     ELSE r[CHOOSE n \in at : \A k \in at : n <= k].line.kind

\* the kind of the last such line
lastAnswer(r) ==
  LET at == {n \in 1..Len(r) : r[n].part = "whole" /\ r[n].line.id = CallId}
  IN IF at = {} THEN "none"
     ELSE r[CHOOSE n \in at : \A k \in at : n >= k].line.kind

\* the state of the invocation of instance e
Phase(e) ==
  CASE epc[e] = "handshake" -> "Initializing"
    [] epc[e] = "calling" -> "Executing"
    [] OTHER -> "other"

NoRead ==
  [tick |-> 0, at |-> "none", init |-> FALSE, call |-> "none", last |-> "none"]

NoReply == [value |-> "none", sent |-> "none"]

NoCmd == [files |-> {}, ran |-> <<>>, failed |-> {}, threw |-> "none"]

HttpReqs == 1..NumHttp

\* the values Date.now() takes: two requests handled within one
\* millisecond read the same value
ClockIds == 1..MaxClock

\* an HTTP request that has not arrived: sent is what was written to its
\* res, in order, each with the request whose message it answers
NoHttp == [st |-> "new", id |-> 0, timer |-> "unset", sent |-> <<>>]

\* the wrapper after startMCPServer and app.listen
WrapperStarted ==
  /\ mcpProcess = "running"
  /\ initSent = FALSE
  /\ wrapperReady = FALSE
  /\ clock = 1
  /\ responseCallbacks = [i \in ClockIds |-> 0]
  /\ toolInbox = {}
  /\ http = [r \in HttpReqs |-> NoHttp]

\* nothing written by the tools, nothing answered, no command run
Unread(E) ==
  /\ cut = [e \in E |-> NoLine]
  /\ lastRead = [e \in E |-> NoRead]
  /\ errText = [e \in E |-> ""]
  /\ reply = [e \in E |-> NoReply]
  /\ pCmd = [k \in 1..NumCalls |-> NoCmd]
  /\ secretsFetch = [k \in 1..NumCalls |-> "none"]
  /\ WrapperStarted

BridgeInit == Constructed(Execs) /\ Listening /\ Unread(Execs)

\* json.result of line l: a value with a truthy content field, another
\* truthy value, or undefined when the line has no result field
resultOf(l) ==
  IF l.kind = "result" THEN {"content", "plain"} ELSE {"undefined"}

\* the CallTool handler after executeTool resolved with v: result.content
\* throws a TypeError on undefined, a truthy content passes the result on,
\* anything else is wrapped as one text segment
translate(v) ==
  CASE v = "undefined" -> "threw"
    [] v = "content" -> "same"
    [] OTHER -> "wrapped"

\* the 'data' handler of instance e on read r, and the CallTool handler
\* when the read resolves executeTool
Read(e, r) ==
  LET c == asChunk(r)
      i == firstCallResponse(c)
  IN /\ gatewayUp
     /\ child[stdoutOf(e)] \in {"running", "exited"}
     /\ listener[e] # "none"
     /\ IF listener[e] = "handshake" THEN HandshakeData(e, c) ELSE CallData(e, c)
     /\ cut' = [cut EXCEPT ![e] = cutAfter(r)]
     /\ lastRead' = [lastRead EXCEPT ![e] =
                       [tick |-> 1 - @.tick, at |-> Phase(e),
                        init |-> holdsInit(r), call |-> firstAnswer(r),
                        last |-> lastAnswer(r)]]
     /\ IF listener[e] = "call" /\ epc[e] = "calling" /\ i # 0
           /\ callOutcome(c[i]) = "result"
        THEN \E v \in resultOf(c[i]) :
               reply' = [reply EXCEPT ![e] = [value |-> v, sent |-> translate(v)]]
        ELSE UNCHANGED reply
     /\ UNCHANGED <<insVars, runVars, mergeVars, gwVars, provVars, errText,
                    pCmd, secretsFetch, wrapVars>>

\* a 'data' event of standard output, the pipe cutting on line boundaries
ReadLines(e) ==
  /\ cut[e] = NoLine
  /\ \E r \in WholeReads : Read(e, r)

\* a 'data' event of standard output, the pipe cutting anywhere
ReadPieces(e) == \E r \in ReadsAfter[cut[e]] : Read(e, r)

\* the 'data' listener of standard error (executor.ts:99): the text is
\* logged and kept nowhere
StderrData(e) ==
  /\ gatewayUp
  /\ child[e] \in {"running", "exited"}
  /\ errText' = [errText EXCEPT ![e] = "Traceback"]
  /\ UNCHANGED <<cut, lastRead, reply, pCmd, secretsFetch, wrapVars>>
  /\ UNCHANGED <<bridgeVars, nodeVars, insVars, runVars, mergeVars, gwVars,
                 provVars>>

\* the Error the 'close' handler rejects with, given the exit code and the
\* text the child wrote to standard error: the message names the code and
\* refers to the log for the rest
crashError(code, text) == [code |-> code, stderr |-> ""]

(***************************************************************************)
(* Discovery Runner: main.  One run of the script registers one tool.      *)
(***************************************************************************)
\* the projects a clone can hold: package.json (with or without a build
\* script), or requirements.txt and/or pyproject.toml, or none of them
Projects ==
  [family : {"node"}, build : BOOLEAN, reqs : {FALSE}, pyproject : {FALSE}]
  \cup {pr \in [family : {"python"}, build : {FALSE}, reqs : BOOLEAN,
                pyproject : BOOLEAN] : pr.reqs \/ pr.pyproject}
  \cup {[family |-> "other", build |-> FALSE, reqs |-> FALSE,
         pyproject |-> FALSE]}

\* capability descriptors, and the lists a tool can answer tools/list with
Descriptors == {"a", "b"}
ToolLists == UNION {[1..n -> Descriptors] : n \in 0..MaxDescriptors}

NoManifest == [by |-> "nobody", tools |-> <<>>]
OldManifest == [by |-> "earlier run", tools |-> <<"a">>]

\* `snapshots/${TOOL_ID}.zip`
storagePath == "snapshots/TOOL_ID.zip"

\* the steps of a run, in the order main takes them; "build" stands for the
\* best-effort steps of installDependencies (npm run build, pip install .)
StepIndex(st) ==
  CASE st = "clone" -> 1 [] st = "deps" -> 2 [] st = "build" -> 3
    [] st = "secrets" -> 4 [] st = "fetch" -> 5 [] st = "zip" -> 6
    [] st = "upload" -> 7 [] st = "update" -> 8

RunIdle ==
  /\ rpc = "idle"
  /\ rDone = {}
  /\ rFailed = {}
  /\ rMsg = ""
  /\ rWrote = {}
  /\ uploaded = FALSE
  /\ iResult = <<>>

\* the script has not been started
NoRun ==
  /\ RunIdle
  /\ project = [family |-> "other", build |-> FALSE, reqs |-> FALSE,
                pyproject |-> FALSE]
  /\ rTools = <<>>
  /\ reg = [status |-> "pending", manifest |-> NoManifest,
            bundlePath |-> "none", errorMessage |-> ""]

\* the script starts on a pending registration, which may carry the manifest
\* and the bundle path of an earlier run
RunInit ==
  /\ RunIdle
  /\ project \in Projects
  /\ rTools = <<>>
  /\ \E old \in BOOLEAN :
       reg = [status |-> "pending",
              manifest |-> IF old THEN OldManifest ELSE NoManifest,
              bundlePath |-> IF old THEN storagePath ELSE "none",
              errorMessage |-> ""]

\* installDependencies: whether it throws, given the project and whether the
\* dependency install (npm install; venv and pip install -r) succeeds
installThrows(pr, depsOk) == pr.family = "python" /\ ~depsOk

\* installDependencies: the steps it runs
installSteps(pr) ==
  (IF pr.family \in {"node", "python"} THEN {"deps"} ELSE {})
  \cup (IF pr.build \/ pr.pyproject THEN {"build"} ELSE {})

\* a manifest that lists the descriptors in reverse
manifestOfReversed(ts) ==
  [by |-> "this run", tools |-> [i \in 1..Len(ts) |-> ts[Len(ts) + 1 - i]]]

\* main: the manifest built from the resolved tools
manifestOf(ts) == [by |-> "this run", tools |-> ts]

\* an upload whose error is not looked at
uploadThrowsNever(ok) == FALSE

\* if (uploadError) throw uploadError
uploadThrows(ok) == ~ok

\* main's catch block up to its await: the update writing status failed is
\* issued with err.message
Catch(msg) ==
  /\ rpc' = "failing"
  /\ rMsg' = msg

\* main up to its first await: clean, clone, installDependencies (all
\* synchronous), then the secrets query is issued
RunStart ==
  /\ rpc = "idle"
  /\ \E cloneOk, depsOk, buildOk \in BOOLEAN :
       IF ~cloneOk
       THEN /\ rDone' = {"clone"}
            /\ rFailed' = {"clone"}
            /\ Catch("clone")
       ELSE LET ran == IF installThrows(project, depsOk)
                       THEN installSteps(project) \cap {"deps"}
                       ELSE installSteps(project)
                bad == (IF depsOk THEN {} ELSE {"deps"})
                         \cup (IF buildOk THEN {} ELSE {"build"})
            IN /\ rDone' = {"clone"} \cup ran \cup
                             (IF installThrows(project, depsOk) THEN {}
                              ELSE {"secrets"})
               /\ rFailed' = ran \cap bad
               /\ IF installThrows(project, depsOk)
                  THEN Catch("deps")
                  ELSE rpc' = "secrets" /\ UNCHANGED rMsg
  /\ UNCHANGED <<project, rTools, reg, rWrote, uploaded, iResult>>
  /\ UNCHANGED <<insVars, notInspector>>

(***************************************************************************)
(* Discovery Runner: fetchToolsFromRunningServer                           *)
(***************************************************************************)
InsInit ==
  /\ ipc = "idle"
  /\ iChild = "none"
  /\ iKillSent = FALSE
  /\ iInit = FALSE
  /\ iTimer = "unset"
  /\ iOutcome = "none"

\* main resumes when the promise of fetchToolsFromRunningServer settles,
\* resolved with the list ts the tool's answer carries or rejected:
\* createZipArtifact is started, or the catch block is entered
Resume(state, out) ==
  IF rpc # "fetch"
  THEN UNCHANGED runVars
  ELSE /\ IF state = "resolved"
          THEN /\ \E ts \in ToolLists : rTools' = ts /\ iResult' = ts
               /\ rpc' = "zip"
               /\ rDone' = rDone \cup {"zip"}
               /\ UNCHANGED <<rFailed, rMsg>>
          ELSE /\ rFailed' = rFailed \cup {"fetch"}
               /\ Catch(out)
               /\ UNCHANGED <<rDone, rTools, iResult>>
       /\ UNCHANGED <<project, reg, rWrote, uploaded>>

\* resolve or reject of the promise: only the first one has an effect
InsSettle(state, out) ==
  IF ipc = "pending"
  THEN ipc' = state /\ iOutcome' = out /\ Resume(state, out)
  ELSE UNCHANGED <<ipc, iOutcome, runVars>>

\* stdout handler: the line completes the handshake
insIsInitResult(l) == l.id = InitId /\ l.kind = "result"

\* stdout handler: the line is a tools/list result carrying a tools field
insIsToolsResult(l) == l.id = ListId /\ l.kind = "result"

\* the promise executor: spawn, register the handlers, write the initialize
\* request, set the 20 s timer
Executor(how) ==
  /\ ipc = "idle"
  /\ IF how = "throws"
     THEN /\ ipc' = "rejected"
          /\ iOutcome' = "spawnError"
          /\ UNCHANGED <<iChild, iTimer>>
     ELSE /\ ipc' = "pending"
          /\ iChild' = IF how = "ok" THEN "running" ELSE "spawnFailed"
          /\ iTimer' = "armed"
          /\ UNCHANGED iOutcome
  /\ UNCHANGED <<iKillSent, iInit>>

\* fetchToolsFromRunningServer called on its own
InsSpawn ==
  /\ rpc = "idle"
  /\ \E how \in {"ok", "throws", "errorEvent"} : Executor(how)
  /\ UNCHANGED runVars
  /\ UNCHANGED notInspector

\* the secrets query returns (an error is a warning and yields {}); main
\* calls fetchToolsFromRunningServer
SecretsDone ==
  /\ rpc = "secrets"
  /\ \E secretsOk \in BOOLEAN, how \in {"ok", "throws", "errorEvent"} :
       /\ Executor(how)
       /\ rDone' = rDone \cup {"fetch"}
       /\ rFailed' = rFailed \cup (IF secretsOk THEN {} ELSE {"secrets"})
                             \cup (IF how = "throws" THEN {"fetch"} ELSE {})
       /\ IF how = "throws"
          THEN Catch("spawnError")
          ELSE rpc' = "fetch" /\ UNCHANGED rMsg
  /\ UNCHANGED <<project, rTools, reg, rWrote, uploaded, iResult>>
  /\ UNCHANGED notInspector

\* serverProcess 'error' handler
InsOnError ==
  /\ rpc # "exited"
  /\ iChild = "spawnFailed"
  /\ iChild' = "failed"
  /\ InsSettle("rejected", "spawnError")
  /\ UNCHANGED <<iKillSent, iInit, iTimer>>
  /\ UNCHANGED notInspector

\* stdout handler: whether the lines of chunk c hold an initialize result,
\* and whether they hold a tools/list result
insHolds(c) ==
  <<\E i \in 1..Len(c) : insIsInitResult(c[i]),
    \E i \in 1..Len(c) : insIsToolsResult(c[i])>>

\* serverProcess.stdout 'data' handler on one 'data' event; what it does
\* depends on the chunk through insHolds only
InsOnData ==
  /\ rpc # "exited"
  /\ iChild \in {"running", "exited"}
  /\ \E holds \in {insHolds(c) : c \in Chunks} :
       /\ iInit' = (iInit \/ holds[1])
       /\ IF holds[2]
          THEN /\ InsSettle("resolved", "tools")
               /\ iKillSent' = TRUE
          ELSE UNCHANGED <<ipc, iOutcome, iKillSent, runVars>>
  /\ UNCHANGED <<iChild, iTimer>>
  /\ UNCHANGED notInspector

\* the tool process ends; serverProcess 'exit' handler
InsExit ==
  /\ rpc # "exited"
  /\ iChild = "running"
  /\ iChild' = "exited"
  /\ IF ~iInit
     THEN InsSettle("rejected", "crash")
     ELSE UNCHANGED <<ipc, iOutcome, runVars>>
  /\ UNCHANGED <<iKillSent, iInit, iTimer>>
  /\ UNCHANGED notInspector

\* the callback of the 20 s setTimeout
InsTimeout ==
  /\ rpc # "exited"
  /\ iTimer = "armed"
  /\ iTimer' = "fired"
  /\ IF ~iInit
     THEN /\ iKillSent' = TRUE
          /\ InsSettle("rejected", "timeout")
     ELSE UNCHANGED <<ipc, iOutcome, iKillSent, runVars>>
  /\ UNCHANGED <<iChild, iInit>>
  /\ UNCHANGED notInspector

(***************************************************************************)
(* Discovery Runner: main after the tools are known                        *)
(***************************************************************************)
\* createZipArtifact settles; the archive is read and the upload is issued
ZipDone ==
  /\ rpc = "zip"
  /\ \E ok \in BOOLEAN :
       IF ok
       THEN /\ rpc' = "upload"
            /\ rDone' = rDone \cup {"upload"}
            /\ UNCHANGED <<rFailed, rMsg>>
       ELSE /\ rFailed' = rFailed \cup {"zip"}
            /\ Catch("zip")
            /\ UNCHANGED rDone
  /\ UNCHANGED <<project, rTools, reg, rWrote, uploaded, iResult>>
  /\ UNCHANGED <<insVars, notInspector>>

\* the upload returns; the update writing status active is issued
UploadDone ==
  /\ rpc = "upload"
  /\ \E ok \in BOOLEAN :
       /\ uploaded' = ok
       /\ IF uploadThrows(ok)
          THEN /\ rFailed' = rFailed \cup {"upload"}
               /\ Catch("upload")
               /\ UNCHANGED rDone
          ELSE /\ rpc' = "update"
               /\ rDone' = rDone \cup {"update"}
               /\ UNCHANGED <<rFailed, rMsg>>
  /\ UNCHANGED <<project, rTools, reg, rWrote, iResult>>
  /\ UNCHANGED <<insVars, notInspector>>

\* the update writing status active returns; its error is not looked at and
\* main ends
UpdateDone ==
  /\ rpc = "update"
  /\ rpc' = "done"
  /\ \E ok \in BOOLEAN :
       IF ok
       THEN /\ reg' = [reg EXCEPT !.status = "active",
                                  !.manifest = manifestOf(iResult),
                                  !.bundlePath = storagePath]
            /\ rWrote' = rWrote \cup {"status", "manifest", "bundle_path"}
            /\ UNCHANGED rFailed
       ELSE /\ rFailed' = rFailed \cup {"update"}
            /\ UNCHANGED <<reg, rWrote>>
  /\ UNCHANGED <<project, rTools, rDone, rMsg, uploaded, iResult>>
  /\ UNCHANGED <<insVars, notInspector>>

\* the update writing status failed returns (the store is taken to accept
\* it); process.exit(1)
FailedUpdateDone ==
  /\ rpc = "failing"
  /\ rpc' = "exited"
  /\ reg' = [reg EXCEPT !.status = "failed", !.errorMessage = rMsg]
  /\ rWrote' = rWrote \cup {"status", "error_message"}
  /\ UNCHANGED <<project, rTools, rDone, rFailed, rMsg, uploaded, iResult>>
  /\ UNCHANGED <<insVars, notInspector>>

NextRunner ==
  \/ RunStart
  \/ SecretsDone
  \/ InsOnError
  \/ InsOnData
  \/ InsExit
  \/ InsTimeout
  \/ ZipDone
  \/ UploadDone
  \/ UpdateDone
  \/ FailedUpdateDone

(***************************************************************************)
(* Arguments and environment of one invoke.  A JavaScript object is a      *)
(* function from the keys of interest to a value or Absent.                *)
(***************************************************************************)
Absent == "<absent>"

ArgKeys == {"a", "b"}
EnvKeys == {"K", "PATH", "PYTHONUNBUFFERED", "PYTHONPATH"}

\* the keys startServer sets itself
BridgeKeys == {"PATH", "PYTHONUNBUFFERED", "PYTHONPATH"}

\* {} over the keys ks
Empty(ks) == [k \in ks |-> Absent]

\* the object spread {...a, ...b}
Spread(a, b) == [k \in DOMAIN a |-> IF b[k] # Absent THEN b[k] ELSE a[k]]

\* foundTool.configuration?.env || {}
configEnvOf(cfg) == IF cfg.present THEN cfg.env ELSE Empty(EnvKeys)

\* foundTool.configuration?.defaultArguments || {}
defaultArgsOf(cfg) == IF cfg.present THEN cfg.defaultArguments ELSE Empty(ArgKeys)

\* an executor env in which the configuration overrides the secrets
executorEnvConfigWins(configEnv, secretEnv) == Spread(secretEnv, configEnv)

\* { ...configEnv, ...secretEnv }
executorEnv(configEnv, secretEnv) == Spread(configEnv, secretEnv)

\* final arguments in which the caller overrides the defaults
finalArgumentsCallerWins(args, defaultArgs) == Spread(defaultArgs, args)

\* { ...args, ...defaultArgs }
finalArguments(args, defaultArgs) == Spread(args, defaultArgs)

\* startServer: newPath, for the non-empty cwd prepareTool returns
newPath(procEnv) ==
  IF procEnv["PATH"] = Absent THEN "venv/bin:undefined"
  ELSE "venv/bin:" \o procEnv["PATH"]

\* startServer: the env option of spawn
spawnEnv(procEnv, env) ==
  [k \in EnvKeys |->
     IF k = "PATH" THEN newPath(procEnv)
     ELSE IF k = "PYTHONUNBUFFERED" THEN "1"
     ELSE IF k = "PYTHONPATH" THEN "cwd"
     ELSE Spread(procEnv, env)[k]]

Configurations ==
  [present : {TRUE}, env : [EnvKeys -> {Absent, "cfg"}],
   defaultArguments : [ArgKeys -> {Absent, "dflt"}]]
  \cup {[present |-> FALSE, env |-> Empty(EnvKeys),
         defaultArguments |-> Empty(ArgKeys)]}

MergeIdle ==
  /\ mStage = "resolved"
  /\ mExecEnv = Empty(EnvKeys)
  /\ mCallArgs = Empty(ArgKeys)
  /\ mSpawnEnv = Empty(EnvKeys)
  /\ mSentArgs = Empty(ArgKeys)

\* the handler has resolved foundTool: the request, the registry row, the
\* secrets and the gateway's environment are whatever they are
MergeInit ==
  /\ MergeIdle
  /\ mArgs \in [ArgKeys -> {Absent, "arg"}]
  /\ mConfig \in Configurations
  /\ mSecrets \in [EnvKeys -> {Absent, "sec"}]
  /\ mProcEnv \in [EnvKeys -> {Absent, "sys"}]

\* CallToolRequestSchema handler: construct the executor, call executeTool
MBuild ==
  /\ mStage = "resolved"
  /\ mStage' = "constructed"
  /\ mExecEnv' = executorEnv(configEnvOf(mConfig), mSecrets)
  /\ mCallArgs' = finalArguments(mArgs, defaultArgsOf(mConfig))
  /\ UNCHANGED <<mArgs, mConfig, mSecrets, mProcEnv, mSpawnEnv, mSentArgs>>
  /\ UNCHANGED notMerge

\* startServer: spawn
MSpawn ==
  /\ mStage = "constructed"
  /\ mStage' = "spawned"
  /\ mSpawnEnv' = spawnEnv(mProcEnv, mExecEnv)
  /\ UNCHANGED <<mArgs, mConfig, mSecrets, mProcEnv, mExecEnv, mCallArgs, mSentArgs>>
  /\ UNCHANGED notMerge

\* callTool: write the tools/call request
MCall ==
  /\ mStage = "spawned"
  /\ mStage' = "called"
  /\ mSentArgs' = mCallArgs
  /\ UNCHANGED <<mArgs, mConfig, mSecrets, mProcEnv, mExecEnv, mCallArgs, mSpawnEnv>>
  /\ UNCHANGED notMerge

NextMerge ==
  \/ MBuild
  \/ MSpawn
  \/ MCall

(***************************************************************************)
(* Session Gateway                                                         *)
(***************************************************************************)
Conns == 1..NumConn
ToolIds == 1..NumTools

Users == {"u1", "u2"}
NoUser == "none"

\* the keys a client may present; "" stands for no key at all
PresentedKeys == {"", "k1", "k2", "bad"}

\* the api_keys table: the user_id of the row whose key_hash is k
KeyOwner(k) == IF k = "k1" THEN "u1" ELSE IF k = "k2" THEN "u2" ELSE NoUser

Statuses == {"pending", "building", "active", "failed"}

\* capability names: every tool advertises name 0, tool t also name t;
\* name NumTools + 1 is advertised by no tool
CapNames == 0..(NumTools + 1)
Manifest(t) == {0, t}

\* what the CallTool handler starts the tool with: the registration whose
\* id goes to prepareTool and to getSecrets, and the one whose
\* start_command and configuration go to the executor; 0 when nothing is
\* started
NoLaunch == [prepared |-> 0, secrets |-> 0, command |-> 0, config |-> 0]

\* kind: none, 404, list, call; user: the userId the handler evaluated with;
\* considered: the rows of the query result; rows: the same in the order
\* the query returned them; listed: the <<tool, name>> pairs returned;
\* name, found: the requested name and the resolved tool; launch: what the
\* handler starts
NoResp == [kind |-> "none", sid |-> 0, user |-> NoUser, considered |-> {},
           rows |-> <<>>, listed |-> {}, name |-> 0, found |-> 0,
           launch |-> NoLaunch]

\* no connection of C has arrived and no message was posted
Unconnected(C) ==
  /\ cPhase = [c \in C |-> "new"]
  /\ cKey = [c \in C |-> ""]
  /\ cUser = [c \in C |-> NoUser]
  /\ cSock = [c \in C |-> "open"]
  /\ sessions = [c \in C |-> NoUser]
  /\ handlers = {}
  /\ lookups = [c \in C |-> 0]
  /\ lastResp = NoResp

GwIdle == Unconnected(Conns)

\* the owner of registration t: the two users own alternate tools
OwnerOf(t) == IF t % 2 = 1 THEN "u1" ELSE "u2"

\* the registrations are whatever the platform and the Discovery Runner
\* left in the table
GwInit ==
  /\ GwIdle
  /\ \E pub \in [ToolIds -> BOOLEAN], st \in [ToolIds -> {"active", "pending"}] :
       tools = [t \in ToolIds |->
                  [owner |-> OwnerOf(t), isPublic |-> pub[t], status |-> st[t]]]

\* requireApiKey: the first check, on the presented key
keyMissing(k) == k = ""

\* an authentication that lets an unknown key through
authOutcomeNo403(k, throws) ==
  IF throws THEN "denied500" ELSE "open"

\* requireApiKey: the outcome of the key lookup
authOutcome(k, throws) ==
  IF throws THEN "denied500"
  ELSE IF KeyOwner(k) = NoUser THEN "denied403"
  ELSE "open"

\* a query that marks what it has read
tableAfterSelectMarking(tbl) ==
  [t \in DOMAIN tbl |-> [tbl[t] EXCEPT !.status = "building"]]

\* supabase.from('tools').select(...): the table after the query, which
\* reads only; the handlers make no other request on the table
tableAfterSelect(tbl) == tbl

\* a query without the status filter
queryToolsAnyStatus(userId) ==
  {t \in ToolIds : tools[t].owner = userId \/ tools[t].isPublic}

\* a query evaluated with the identity of one fixed user
queryToolsAsFirst(userId) ==
  {t \in ToolIds : /\ tools[t].status = "active"
                   /\ (tools[t].owner = "u1" \/ tools[t].isPublic)}

\* a query without the ownership filter
queryToolsAll(userId) ==
  {t \in ToolIds : tools[t].status = "active"}

\* .eq('status', 'active').or(`user_id.eq.${userId},is_public.eq.true`)
queryTools(userId) ==
  {t \in ToolIds : /\ tools[t].status = "active"
                   /\ (tools[t].owner = userId \/ tools[t].isPublic)}

\* ListTools handler: the capabilities of the tools in ts
listCapabilities(ts) == {<<t, n>> : t \in ts, n \in CapNames} \cap
                        {<<t, n>> \in ToolIds \X CapNames : n \in Manifest(t)}

\* the orders in which a query without ORDER BY can return the rows ts
Orderings(ts) ==
  {q \in [1..Cardinality(ts) -> ts] :
     \A i, j \in 1..Cardinality(ts) : q[i] = q[j] => i = j}

\* a loop without the break: the last match stays in foundTool
findToolLast(rows, name) ==
  LET hits == {i \in 1..Len(rows) : name \in Manifest(rows[i])}
  IN IF hits = {} THEN 0 ELSE rows[CHOOSE i \in hits : \A j \in hits : i >= j]

\* a loop that falls back on the first row when no manifest has the name
findToolOrFirst(rows, name) ==
  LET hits == {i \in 1..Len(rows) : name \in Manifest(rows[i])}
  IN IF hits = {}
     THEN (IF Len(rows) = 0 THEN 0 ELSE rows[1])
     ELSE rows[CHOOSE i \in hits : \A j \in hits : i <= j]

\* CallTool handler: the loop over the rows of the query result, left at
\* the first row whose manifest has the name; 0 when there is none
findTool(rows, name) ==
  LET hits == {i \in 1..Len(rows) : name \in Manifest(rows[i])}
  IN IF hits = {} THEN 0 ELSE rows[CHOOSE i \in hits : \A j \in hits : i <= j]

\* CallTool handler after the loop: every argument of prepareTool,
\* getSecrets and the MCPExecutor constructor is read from foundTool; with
\* no foundTool the handler throws before any of them
launchOf(found) ==
  [prepared |-> found, secrets |-> found, command |-> found, config |-> found]

\* GET /sse arrives: requireApiKey up to its await (a denial ends the
\* response)
Connect(c) ==
  /\ cPhase[c] = "new"
  /\ \E k \in PresentedKeys :
       IF keyMissing(k)
       THEN /\ cPhase' = [cPhase EXCEPT ![c] = "denied401"]
            /\ cSock' = [cSock EXCEPT ![c] = "closed"]
            /\ UNCHANGED <<cKey, lookups>>
       ELSE /\ cPhase' = [cPhase EXCEPT ![c] = "auth"]
            /\ cKey' = [cKey EXCEPT ![c] = k]
            /\ lookups' = [lookups EXCEPT ![c] = @ + 1]
            /\ UNCHANGED cSock
  /\ UNCHANGED <<tools, cUser, sessions, handlers, lastResp>>
  /\ UNCHANGED notGateway

\* the key lookup returns: the rest of requireApiKey (a denial ends the
\* response) and, through next(), the /sse handler up to its await of
\* server.connect
AuthResolve(c) ==
  /\ cPhase[c] = "auth"
  /\ \E throws \in BOOLEAN :
       LET out == authOutcome(cKey[c], throws) IN
       /\ cPhase' = [cPhase EXCEPT ![c] = out]
       /\ cKey' = [cKey EXCEPT ![c] = ""]
       /\ IF out = "open"
          THEN /\ cUser' = [cUser EXCEPT ![c] = KeyOwner(cKey[c])]
               /\ handlers' = handlers \cup {c}
               /\ sessions' = [sessions EXCEPT ![c] = KeyOwner(cKey[c])]
               /\ UNCHANGED cSock
          ELSE /\ cSock' = [cSock EXCEPT ![c] = "closed"]
               /\ UNCHANGED <<cUser, handlers, sessions>>
  /\ UNCHANGED <<tools, lookups, lastResp>>
  /\ UNCHANGED notGateway

\* the client's connection ends and res emits 'close'; the listener of the
\* /sse handler runs if it was registered by then
ClientClose(c) ==
  /\ cPhase[c] \in {"auth", "open"}
  /\ cSock[c] = "open"
  /\ cSock' = [cSock EXCEPT ![c] = "closed"]
  /\ IF cPhase[c] = "open"
     THEN sessions' = [sessions EXCEPT ![c] = NoUser]
     ELSE UNCHANGED sessions
  /\ UNCHANGED <<tools, cPhase, cKey, cUser, handlers, lookups, lastResp>>
  /\ UNCHANGED notGateway

\* POST /messages?sessionId=sid carrying a tools/list request
PostList(sid) ==
  /\ lastResp' =
       IF sessions[sid] = NoUser
       THEN [NoResp EXCEPT !.kind = "404", !.sid = sid]
       ELSE LET ts == queryTools(sessions[sid]) IN
            [kind |-> "list", sid |-> sid, user |-> sessions[sid],
             considered |-> ts, rows |-> <<>>, listed |-> listCapabilities(ts),
             name |-> 0, found |-> 0, launch |-> NoLaunch]
  /\ tools' = IF sessions[sid] = NoUser THEN tools ELSE tableAfterSelect(tools)
  /\ UNCHANGED <<cPhase, cKey, cUser, cSock, sessions, handlers, lookups>>
  /\ UNCHANGED notGateway

\* POST /messages?sessionId=sid carrying a tools/call request: the handler
\* up to the resolution of foundTool, and what it then starts the tool with
PostCall(sid) ==
  /\ \E name \in CapNames :
       IF sessions[sid] = NoUser
       THEN lastResp' = [NoResp EXCEPT !.kind = "404", !.sid = sid]
       ELSE LET ts == queryTools(sessions[sid]) IN
            \E rows \in Orderings(ts) :
              lastResp' =
                [kind |-> "call", sid |-> sid, user |-> sessions[sid],
                 considered |-> ts, rows |-> rows, listed |-> {},
                 name |-> name, found |-> findTool(rows, name),
                 launch |-> launchOf(findTool(rows, name))]
  /\ tools' = IF sessions[sid] = NoUser THEN tools ELSE tableAfterSelect(tools)
  /\ UNCHANGED <<cPhase, cKey, cUser, cSock, sessions, handlers, lookups>>
  /\ UNCHANGED notGateway

\* the status column of registration t is written from outside the gateway:
\* pending by the platform on registration, active or failed by a run of
\* the Discovery Runner (inspector.ts:95-108)
StatusWrite(t) ==
  /\ \E st \in Statuses : tools' = [tools EXCEPT ![t].status = st]
  /\ UNCHANGED <<cPhase, cKey, cUser, cSock, sessions, handlers, lookups,
                 lastResp>>
  /\ UNCHANGED notGateway

NextGateway ==
  \/ \E c \in Conns : Connect(c)
  \/ \E c \in Conns : AuthResolve(c)
  \/ \E c \in Conns : ClientClose(c)
  \/ \E c \in Conns : PostList(c)
  \/ \E c \in Conns : PostCall(c)

(***************************************************************************)
(* Provisioner: prepareTool.  The cache directory of a tool is abstracted  *)
(* to whether it exists, how much of the bundle is extracted in it and how *)
(* much of its dependencies is installed in it.                            *)
(***************************************************************************)
Calls == 1..NumCalls

Families == {"node", "python", "unknown"}

NoPath == <<>>

\* path.join(path.resolve('runtime_cache'), toolId)
toolDir(t) == <<"runtime_cache", t>>

AbsentDir == [exists |-> FALSE, extracted |-> "none", deps |-> "none"]

\* fs.readdir(toolDir): whether the listing has an entry
hasFiles(dir) == dir.extracted # "none" \/ dir.deps # "none"

\* a cache check that never hits
cacheHitNever(dir) == FALSE

\* the cache check on the listing of an existing directory
cacheHit(dir) == hasFiles(dir)

\* isNode || isPython: an install step is run for the bundle
needsInstall(family) == family \in {"node", "python"}

\* what is extracted after a pass that wrote part of the bundle
partialOver(e) == IF e = "full" THEN "full" ELSE "partial"

ProvInit ==
  /\ bundles \in [ToolIds -> Families]
  /\ cache = [t \in ToolIds |-> AbsentDir]
  /\ ppc = [k \in Calls |-> "idle"]
  /\ pTool = [k \in Calls |-> 0]
  /\ pOps = [k \in Calls |-> {}]
  /\ pRet = [k \in Calls |-> NoPath]
  /\ pErr = [k \in Calls |-> "none"]

\* the call throws in step step
ProvFail(k, step) ==
  /\ ppc' = [ppc EXCEPT ![k] = "failed"]
  /\ pErr' = [pErr EXCEPT ![k] = step]
  /\ UNCHANGED pRet

\* return toolDir
ProvReturn(k) ==
  /\ ppc' = [ppc EXCEPT ![k] = "returned"]
  /\ pRet' = [pRet EXCEPT ![k] = toolDir(pTool[k])]
  /\ UNCHANGED pErr

\* prepareTool(toolId, bundlePath) up to its first await: readdir when the
\* directory exists, ensureDir when it does not
PrepareTool(k) ==
  /\ ppc[k] = "idle"
  /\ \E t \in ToolIds :
       /\ pTool' = [pTool EXCEPT ![k] = t]
       /\ ppc' = [ppc EXCEPT ![k] = IF cache[t].exists THEN "readdir" ELSE "ensuring"]
  /\ UNCHANGED <<bundles, cache, pOps, pRet, pErr>>
  /\ UNCHANGED notProvisioner

\* fs.readdir returns: the cache check, or the start of the cold pass
ReaddirDone(k) ==
  /\ ppc[k] = "readdir"
  /\ LET dir == cache[pTool[k]] IN
     IF ~dir.exists
     THEN ProvFail(k, "readdir")
     ELSE IF cacheHit(dir)
     THEN ProvReturn(k)
     ELSE /\ ppc' = [ppc EXCEPT ![k] = "removing"]
          /\ UNCHANGED <<pRet, pErr>>
  /\ UNCHANGED <<bundles, cache, pTool, pOps>>
  /\ UNCHANGED notProvisioner

\* fs.remove(toolDir) is done
RemoveDone(k) ==
  /\ ppc[k] = "removing"
  /\ cache' = [cache EXCEPT ![pTool[k]] = AbsentDir]
  /\ pOps' = [pOps EXCEPT ![k] = @ \cup {"remove"}]
  /\ ppc' = [ppc EXCEPT ![k] = "ensuring"]
  /\ UNCHANGED <<bundles, pTool, pRet, pErr>>
  /\ UNCHANGED notProvisioner

\* fs.ensureDir(toolDir) is done; the download is requested
EnsureDone(k) ==
  /\ ppc[k] = "ensuring"
  /\ cache' = [cache EXCEPT ![pTool[k]].exists = TRUE]
  /\ pOps' = [pOps EXCEPT ![k] = @ \cup {"download"}]
  /\ ppc' = [ppc EXCEPT ![k] = "downloading"]
  /\ UNCHANGED <<bundles, pTool, pRet, pErr>>
  /\ UNCHANGED notProvisioner

\* the download returns: the error check, the extraction (synchronous) and
\* the start of the install
DownloadDone(k) ==
  /\ ppc[k] = "downloading"
  /\ LET t == pTool[k] IN
     \E got \in {"error", "badZip", "partial", "ok"} :
       IF got = "error"
       THEN /\ ProvFail(k, "download")
            /\ UNCHANGED <<cache, pOps>>
       ELSE IF got = "badZip"
       THEN /\ ProvFail(k, "extract")
            /\ UNCHANGED <<cache, pOps>>
       ELSE IF got = "partial"
       THEN /\ ProvFail(k, "extract")
            /\ cache' = [cache EXCEPT ![t].exists = TRUE,
                                      ![t].extracted = partialOver(@)]
            /\ pOps' = [pOps EXCEPT ![k] = @ \cup {"extract"}]
       ELSE /\ cache' = [cache EXCEPT ![t].exists = TRUE,
                                      ![t].extracted = "full"]
            /\ IF needsInstall(bundles[t])
               THEN /\ ppc' = [ppc EXCEPT ![k] = "installing"]
                    /\ pOps' = [pOps EXCEPT ![k] = @ \cup {"extract", "install"}]
                    /\ UNCHANGED <<pRet, pErr>>
               ELSE /\ ProvReturn(k)
                    /\ pOps' = [pOps EXCEPT ![k] = @ \cup {"extract"}]
  /\ UNCHANGED <<bundles, pTool>>
  /\ UNCHANGED notProvisioner

\* the install commands end, all of them run (ok) or one of them having
\* thrown; wrote: whether the ones that ran left files behind
Install(k, ok, wrote) ==
  /\ ppc[k] = "installing"
  /\ LET t == pTool[k] IN
       IF ok /\ cache[t].exists
       THEN /\ cache' = [cache EXCEPT ![t].deps = "full"]
            /\ ProvReturn(k)
       ELSE /\ cache' = [cache EXCEPT ![t].deps =
                           IF wrote /\ cache[t].exists THEN partialOver(@) ELSE @]
            /\ ProvFail(k, "install")
  /\ UNCHANGED <<bundles, pTool, pOps>>

\* the package manager run ends
InstallDone(k) ==
  /\ \E ok \in BOOLEAN, wrote \in BOOLEAN : Install(k, ok, wrote)
  /\ UNCHANGED notProvisioner

\* the files the install looks for that an extracted bundle of the family
\* can hold: a Node bundle has its package.json, a Python bundle has a
\* pyproject.toml or a requirements.txt
BundleFiles(family) ==
  CASE family = "node" -> SUBSET {"pnpm-lock.yaml", "tsconfig.json"}
    [] family = "python" ->
         {f \in SUBSET {"uv.lock", "pyproject.toml", "requirements.txt"} :
            f \cap {"pyproject.toml", "requirements.txt"} # {}}
    [] OTHER -> {{}}

\* the commands of the install in their order, for the files of the bundle
installPlan(family, files) ==
  CASE family = "node" ->
         (IF "pnpm-lock.yaml" \in files
          THEN <<"pnpmGlobal", "pnpmInstall">>
          ELSE <<"npmInstall">>)
         \o (IF "tsconfig.json" \in files THEN <<"build">> ELSE <<>>)
    [] family = "python" ->
         <<"venv", "pipUpgrade", "uv">>
         \o (IF "uv.lock" \in files THEN <<"uvSync">>
             ELSE IF "pyproject.toml" \in files THEN <<"project">>
             ELSE IF "requirements.txt" \in files THEN <<"requirements">>
             ELSE <<>>)
    [] OTHER -> <<>>

\* no command's failure is swallowed
toleratedNone(cmd) == FALSE

\* the commands wrapped in a try whose catch does not throw
tolerated(cmd) == cmd \in {"pnpmGlobal", "build"}

\* the place in plan of the first command in bad whose failure is thrown,
\* 0 when there is none
threwAt(plan, bad) ==
  LET at == {i \in 1..Len(plan) : plan[i] \in bad /\ ~tolerated(plan[i])}
  IN IF at = {} THEN 0 ELSE CHOOSE i \in at : \A j \in at : i <= j

\* the package manager run ends, command by command: the commands in bad
\* fail when they are run
InstallRun(k) ==
  /\ ppc[k] = "installing"
  /\ \E files \in BundleFiles(bundles[pTool[k]]), wrote \in BOOLEAN :
       LET plan == installPlan(bundles[pTool[k]], files) IN
       \E bad \in SUBSET {plan[i] : i \in 1..Len(plan)} :
         LET i == threwAt(plan, bad)
             ran == IF i = 0 THEN 1..Len(plan) ELSE 1..i
         IN /\ Install(k, i = 0, wrote)
            /\ pCmd' = [pCmd EXCEPT ![k] =
                          [files |-> files,
                           ran |-> [j \in ran |-> plan[j]],
                           failed |-> {plan[j] : j \in ran} \cap bad,
                           threw |-> IF i = 0 THEN "none" ELSE plan[i]]]
  /\ UNCHANGED <<cut, lastRead, errText, reply, secretsFetch, wrapVars>>
  /\ UNCHANGED <<bridgeVars, nodeVars, insVars, runVars, mergeVars, gwVars>>

NextProvisioner ==
  \/ \E k \in Calls : PrepareTool(k)
  \/ \E k \in Calls : ReaddirDone(k)
  \/ \E k \in Calls : RemoveDone(k)
  \/ \E k \in Calls : EnsureDone(k)
  \/ \E k \in Calls : DownloadDone(k)
  \/ \E k \in Calls : InstallDone(k)

\* a call made when no other call is in flight
PrepareToolAlone(k) ==
  /\ \A j \in Calls \ {k} : ppc[j] \in {"idle", "returned", "failed"}
  /\ PrepareTool(k)

\* the calls made one after another
NextSequential ==
  \/ \E k \in Calls : PrepareToolAlone(k)
  \/ \E k \in Calls : ReaddirDone(k)
  \/ \E k \in Calls : RemoveDone(k)
  \/ \E k \in Calls : EnsureDone(k)
  \/ \E k \in Calls : DownloadDone(k)
  \/ \E k \in Calls : InstallDone(k)

(***************************************************************************)
(* One invoke, from the resolved tool on: the CallTool handler calls       *)
(* prepareTool, fetches the secrets, constructs an MCPExecutor and calls   *)
(* executeTool (index.ts:116-122).  The invoke uses the prepareTool call   *)
(* and the executor of its own index.                                      *)
(***************************************************************************)
TheInvoke == CHOOSE i \in Execs \cap Calls : TRUE

\* the directories earlier invokes can have left in the cache
LeftoverDirs ==
  {AbsentDir,
   [exists |-> TRUE, extracted |-> "none", deps |-> "none"],
   [exists |-> TRUE, extracted |-> "full", deps |-> "full"]}

InvokeInit ==
  /\ \E f \in Families, dir \in LeftoverDirs :
       /\ bundles = [t \in ToolIds |-> f]
       /\ cache = [t \in ToolIds |-> dir]
  /\ ppc = [k \in Calls |-> "idle"]
  /\ pTool = [k \in Calls |-> 0]
  /\ pOps = [k \in Calls |-> {}]
  /\ pRet = [k \in Calls |-> NoPath]
  /\ pErr = [k \in Calls |-> "none"]

\* prepareTool has returned and the secrets query returns: the handler
\* constructs the executor and calls executeTool
InvokeExecute(i) ==
  /\ ppc[i] = "returned"
  /\ ExecuteTool(i)

\* prepareTool has returned and the secrets query returns, with the rows
\* or with an error (getSecrets then returns an empty map): the handler
\* constructs the executor and calls executeTool
SecretsReturn(i) ==
  /\ ppc[i] = "returned"
  /\ Launch(i)
  /\ \E got \in {"rows", "error"} :
       secretsFetch' = [secretsFetch EXCEPT ![i] = got]
  /\ UNCHANGED <<cut, lastRead, errText, reply, pCmd, wrapVars>>
  /\ UNCHANGED <<nodeVars, insVars, runVars, mergeVars, gwVars, provVars>>

\* one invoke from the resolved tool on, the secrets query followed
NextRouting ==
  \/ PrepareTool(TheInvoke)
  \/ ReaddirDone(TheInvoke)
  \/ RemoveDone(TheInvoke)
  \/ EnsureDone(TheInvoke)
  \/ DownloadDone(TheInvoke)
  \/ InstallDone(TheInvoke)
  \/ SecretsReturn(TheInvoke)
  \/ OnData(TheInvoke)
  \/ HandshakeTimeout(TheInvoke)
  \/ SafetyTimeout(TheInvoke)
  \/ ChildExit(TheInvoke)
  \/ OnClose(TheInvoke)

NextInvoke ==
  \/ PrepareTool(TheInvoke)
  \/ ReaddirDone(TheInvoke)
  \/ RemoveDone(TheInvoke)
  \/ EnsureDone(TheInvoke)
  \/ DownloadDone(TheInvoke)
  \/ InstallDone(TheInvoke)
  \/ InvokeExecute(TheInvoke)
  \/ OnData(TheInvoke)
  \/ HandshakeTimeout(TheInvoke)
  \/ SafetyTimeout(TheInvoke)
  \/ ChildExit(TheInvoke)
  \/ OnClose(TheInvoke)

NextBridge ==
  \/ \E e \in Execs : ExecuteTool(e)
  \/ \E e \in Execs : OnData(e)
  \/ \E e \in Execs : HandshakeTimeout(e)
  \/ \E e \in Execs : SafetyTimeout(e)
  \/ \E e \in Execs : ChildExit(e)
  \/ \E e \in Execs : OnClose(e)

NextInspector ==
  \/ InsSpawn
  \/ InsOnError
  \/ InsOnData
  \/ InsExit
  \/ InsTimeout

vars == <<bridgeVars, nodeVars, insVars, runVars, mergeVars, gwVars, provVars,
          wireVars>>

\* no gateway traffic and no registrations
NoGateway ==
  /\ GwIdle
  /\ tools = [t \in ToolIds |->
               [owner |-> "u1", isPublic |-> FALSE, status |-> "pending"]]

\* no prepareTool call is made
NoProvisioning ==
  /\ ProvInit
  /\ bundles = [t \in ToolIds |-> "unknown"]

\* no invoke under way: an empty request against an unconfigured tool
NoInvoke ==
  /\ MergeIdle
  /\ mArgs = Empty(ArgKeys)
  /\ mConfig = [present |-> FALSE, env |-> Empty(EnvKeys),
                defaultArguments |-> Empty(ArgKeys)]
  /\ mSecrets = Empty(EnvKeys)
  /\ mProcEnv = Empty(EnvKeys)

InitBridge == BridgeInit /\ InsInit /\ NoRun /\ NoInvoke /\ NoGateway /\ NoProvisioning

InitMerge == BridgeInit /\ InsInit /\ NoRun /\ MergeInit /\ NoGateway /\ NoProvisioning

InitGateway == BridgeInit /\ InsInit /\ NoRun /\ NoInvoke /\ GwInit /\ NoProvisioning

InitProvisioner == BridgeInit /\ InsInit /\ NoRun /\ NoInvoke /\ NoGateway /\ ProvInit

SpecProvisioner == InitProvisioner /\ [][NextProvisioner]_vars

SpecSequential == InitProvisioner /\ [][NextSequential]_vars

InitInvoke == BridgeInit /\ InsInit /\ NoRun /\ NoInvoke /\ NoGateway /\ InvokeInit

SpecInvoke == InitInvoke /\ [][NextInvoke]_vars

\* one prepareTool call followed command by command
NextInstall ==
  \/ PrepareTool(TheInvoke)
  \/ ReaddirDone(TheInvoke)
  \/ RemoveDone(TheInvoke)
  \/ EnsureDone(TheInvoke)
  \/ DownloadDone(TheInvoke)
  \/ InstallRun(TheInvoke)

SpecInstall == InitInvoke /\ [][NextInstall]_vars

SpecRouting == InitInvoke /\ [][NextRouting]_vars

(***************************************************************************)
(* The gateway serving one session, and one invoke of that session from    *)
(* the resolution of the tool through prepareTool to the end of            *)
(* executeTool.                                                            *)
(***************************************************************************)
TheSession == CHOOSE c \in Conns : TRUE

\* active registrations, those with an even id shared, with Node bundles
\* and an empty directory left in the cache
InitServing ==
  /\ BridgeInit /\ InsInit /\ NoRun /\ NoInvoke /\ GwIdle
  /\ tools = [t \in ToolIds |->
               [owner |-> OwnerOf(t), isPublic |-> (t % 2 = 0),
                status |-> "active"]]
  /\ bundles = [t \in ToolIds |-> "node"]
  /\ cache = [t \in ToolIds |->
               [exists |-> TRUE, extracted |-> "none", deps |-> "none"]]
  /\ ppc = [k \in Calls |-> "idle"]
  /\ pTool = [k \in Calls |-> 0]
  /\ pOps = [k \in Calls |-> {}]
  /\ pRet = [k \in Calls |-> NoPath]
  /\ pErr = [k \in Calls |-> "none"]

\* the CallTool handler has resolved foundTool and calls prepareTool with
\* its id (index.ts:116)
ServePrepare(i) ==
  /\ lastResp.kind = "call" /\ lastResp.found # 0
  /\ PrepareTool(i)
  /\ pTool'[i] = lastResp.launch.prepared

NextServing ==
  \/ Connect(TheSession)
  \/ AuthResolve(TheSession)
  \/ ClientClose(TheSession)
  \/ PostList(TheSession)
  \/ PostCall(TheSession)
  \/ ServePrepare(TheInvoke)
  \/ ReaddirDone(TheInvoke)
  \/ RemoveDone(TheInvoke)
  \/ EnsureDone(TheInvoke)
  \/ DownloadDone(TheInvoke)
  \/ InstallDone(TheInvoke)
  \/ InvokeExecute(TheInvoke)
  \/ OnData(TheInvoke)
  \/ HandshakeTimeout(TheInvoke)
  \/ SafetyTimeout(TheInvoke)
  \/ ChildExit(TheInvoke)
  \/ OnClose(TheInvoke)

SpecServing == InitServing /\ [][NextServing]_vars

InitRunner ==
  /\ BridgeInit /\ InsInit /\ RunInit
  /\ NoInvoke /\ NoGateway /\ NoProvisioning

SpecRunner == InitRunner /\ [][NextRunner]_vars

SpecGateway == InitGateway /\ [][NextGateway]_vars

(***************************************************************************)
(* HTTP wrapper (packages/bridge/index.ts): one long-lived tool process    *)
(* behind GET /tools and POST /tools/call.  The tool answers a message it  *)
(* has read at most once, with the id of the message.                      *)
(***************************************************************************)
notWrapper == <<bridgeVars, nodeVars, insVars, runVars, mergeVars, gwVars,
                provVars, cut, lastRead, errText, reply, pCmd, secretsFetch>>

\* the 1 s timer of startMCPServer: the initialize request is written
WrapperInitialize ==
  /\ ~initSent
  /\ initSent' = TRUE
  /\ UNCHANGED <<mcpProcess, wrapperReady, clock, responseCallbacks,
                 toolInbox, http>>
  /\ UNCHANGED notWrapper

\* stdout 'data' with the tool's id-0 result: no callback has id 0, the
\* notification is written and isInitialized is set
ToolInitResult ==
  /\ initSent /\ mcpProcess = "running" /\ ~wrapperReady
  /\ wrapperReady' = TRUE
  /\ UNCHANGED <<mcpProcess, initSent, clock, responseCallbacks, toolInbox,
                 http>>
  /\ UNCHANGED notWrapper

\* a millisecond passes
Tick ==
  /\ clock < MaxClock
  /\ clock' = clock + 1
  /\ UNCHANGED <<mcpProcess, initSent, wrapperReady, responseCallbacks,
                 toolInbox, http>>
  /\ UNCHANGED notWrapper

\* responseCallbacks.set(requestId, callback of request r)
setCallback(cbs, id, r) == [cbs EXCEPT ![id] = r]

\* a response written by the wrapper itself, answering no message
Status(code) == [code |-> code, answers |-> 0]

\* GET /tools or POST /tools/call arrives: 503 while not initialized, 400
\* for a call without a name, else the callback is registered under
\* Date.now(), the message is written to the tool and the timer is set
HttpRequest(r) ==
  /\ http[r].st = "new"
  /\ \E named \in BOOLEAN :
       IF ~wrapperReady \/ ~named
       THEN /\ http' = [http EXCEPT ![r].st = "refused",
                          ![r].sent = <<Status(IF ~wrapperReady THEN "503"
                                               ELSE "400")>>]
            /\ UNCHANGED <<responseCallbacks, toolInbox>>
       ELSE /\ http' = [http EXCEPT ![r].st = "pending", ![r].id = clock,
                                    ![r].timer = "armed"]
            /\ responseCallbacks' = setCallback(responseCallbacks, clock, r)
            /\ toolInbox' = IF mcpProcess = "running"
                            THEN toolInbox \cup {r} ELSE toolInbox
  /\ UNCHANGED <<mcpProcess, initSent, wrapperReady, clock>>
  /\ UNCHANGED notWrapper

\* stdout 'data' with the tool's answer to the message of request r, a
\* result or an error: the callback the map has for its id, if any, writes
\* it to the res of the request that registered it and is deleted
ToolAnswer(r) ==
  /\ r \in toolInbox /\ mcpProcess = "running"
  /\ toolInbox' = toolInbox \ {r}
  /\ \E code \in {"200", "500"} :
       LET id == http[r].id
           q == responseCallbacks[id]
       IN IF q = 0
          THEN UNCHANGED <<http, responseCallbacks>>
          ELSE /\ http' = [http EXCEPT ![q].sent =
                             Append(@, [code |-> code, answers |-> r])]
               /\ responseCallbacks' = [responseCallbacks EXCEPT ![id] = 0]
  /\ UNCHANGED <<mcpProcess, initSent, wrapperReady, clock>>
  /\ UNCHANGED notWrapper

\* the timer of request r (10 s for /tools, 30 s for /tools/call)
HttpTimeout(r) ==
  /\ http[r].timer = "armed"
  /\ IF responseCallbacks[http[r].id] # 0
     THEN /\ responseCallbacks' = [responseCallbacks EXCEPT ![http[r].id] = 0]
          /\ http' = [http EXCEPT ![r].timer = "fired",
                                  ![r].sent = Append(@, Status("504"))]
     ELSE /\ http' = [http EXCEPT ![r].timer = "fired"]
          /\ UNCHANGED responseCallbacks
  /\ UNCHANGED <<mcpProcess, initSent, wrapperReady, clock, toolInbox>>
  /\ UNCHANGED notWrapper

\* the tool process exits: the 'exit' handler clears isInitialized
ToolExit ==
  /\ mcpProcess = "running"
  /\ mcpProcess' = "exited"
  /\ wrapperReady' = FALSE
  /\ UNCHANGED <<initSent, clock, responseCallbacks, toolInbox, http>>
  /\ UNCHANGED notWrapper

NextWrapper ==
  \/ WrapperInitialize
  \/ ToolInitResult
  \/ Tick
  \/ \E r \in HttpReqs : HttpRequest(r)
  \/ \E r \in HttpReqs : ToolAnswer(r)
  \/ \E r \in HttpReqs : HttpTimeout(r)
  \/ ToolExit

SpecWrapper == InitBridge /\ [][NextWrapper]_vars

\* one session on a registry whose rows are in any status and change status
\* while the session is open
InitRegistry ==
  /\ BridgeInit /\ InsInit /\ NoRun /\ NoInvoke /\ NoProvisioning
  /\ GwIdle
  /\ \E pub \in [ToolIds -> BOOLEAN], st \in [ToolIds -> Statuses] :
       tools = [t \in ToolIds |->
                  [owner |-> OwnerOf(t), isPublic |-> pub[t], status |-> st[t]]]

NextRegistry ==
  \/ Connect(TheSession)
  \/ AuthResolve(TheSession)
  \/ ClientClose(TheSession)
  \/ PostList(TheSession)
  \/ PostCall(TheSession)
  \/ \E t \in ToolIds : StatusWrite(t)

SpecRegistry == InitRegistry /\ [][NextRegistry]_vars

\* two sessions at once on one gateway
TwoSessions == {1, 2}

InitSessions ==
  /\ BridgeInit /\ InsInit /\ NoRun /\ NoInvoke /\ NoProvisioning
  /\ Unconnected(TwoSessions)
  /\ \E pub \in [ToolIds -> BOOLEAN], st \in [ToolIds -> {"active", "pending"}] :
       tools = [t \in ToolIds |->
                  [owner |-> OwnerOf(t), isPublic |-> pub[t], status |-> st[t]]]

NextSessions ==
  \/ \E c \in TwoSessions : Connect(c)
  \/ \E c \in TwoSessions : AuthResolve(c)
  \/ \E c \in TwoSessions : ClientClose(c)
  \/ \E c \in TwoSessions : PostList(c)
  \/ \E c \in TwoSessions : PostCall(c)

SpecSessions == InitSessions /\ [][NextSessions]_vars

SpecMerge == InitMerge /\ [][NextMerge]_vars

SpecBridge == InitBridge /\ [][NextBridge]_vars

SpecInspector == InitBridge /\ [][NextInspector]_vars

(***************************************************************************)
(* Scheduling: a timer that was set fires, a 'close' event of an ended     *)
(* process is delivered, and a process that was sent a kill ends.  Nothing *)
(* obliges the tool to write or to end by itself.                          *)
(***************************************************************************)
FairBridge ==
  \A e \in Execs :
    /\ WF_vars(HandshakeTimeout(e))
    /\ WF_vars(SafetyTimeout(e))
    /\ WF_vars(OnClose(e))
    /\ WF_vars(killSent[e] /\ ChildExit(e))

FairInspector ==
  /\ WF_vars(InsTimeout)
  /\ WF_vars(InsOnError)
  /\ WF_vars(iKillSent /\ InsExit)

\* the requests of main to the stores return, and main starts
FairRunner ==
  /\ WF_vars(RunStart)
  /\ WF_vars(SecretsDone)
  /\ WF_vars(ZipDone)
  /\ WF_vars(UploadDone)
  /\ WF_vars(UpdateDone)
  /\ WF_vars(FailedUpdateDone)

FairSpecRunner == SpecRunner /\ FairRunner /\ FairInspector

FairSpecBridge == SpecBridge /\ FairBridge

FairSpecInspector == SpecInspector /\ FairInspector

\* every process handle of the system: the executors' and the runner's
NextHandles == NextBridge \/ NextInspector

SpecHandles == InitBridge /\ [][NextHandles]_vars

FairSpecHandles == SpecHandles /\ FairBridge /\ FairInspector

(***************************************************************************)
(* Two invocations in flight at once, from two sessions or pipelined in    *)
(* one: the CallTool handler constructs an MCPExecutor of its own for each *)
(* (index.ts:121).                                                         *)
(***************************************************************************)
Invocations == {1, 2}

InitIsolation ==
  /\ Constructed(Invocations) /\ Listening /\ Unread(Invocations)
  /\ InsInit /\ NoRun /\ NoInvoke /\ NoGateway /\ NoProvisioning

NextIsolation ==
  \/ \E e \in Invocations : ExecuteTool(e)
  \/ \E e \in Invocations : OnData(e)
  \/ \E e \in Invocations : HandshakeTimeout(e)
  \/ \E e \in Invocations : SafetyTimeout(e)
  \/ \E e \in Invocations : ChildExit(e)
  \/ \E e \in Invocations : OnClose(e)

SpecIsolation == InitIsolation /\ [][NextIsolation]_vars

(***************************************************************************)
(* One invocation followed read by read                                    *)
(***************************************************************************)
OneCall == {1}

InitExchange ==
  /\ Constructed(OneCall) /\ Listening /\ Unread(OneCall)
  /\ InsInit /\ NoRun /\ NoInvoke /\ NoGateway /\ NoProvisioning

\* the tool's output arrives cut on line boundaries
NextExchange ==
  \/ \E e \in OneCall : ExecuteTool(e)
  \/ \E e \in OneCall : ReadLines(e)
  \/ \E e \in OneCall : HandshakeTimeout(e)
  \/ \E e \in OneCall : SafetyTimeout(e)
  \/ \E e \in OneCall : ChildExit(e)
  \/ \E e \in OneCall : OnClose(e)

SpecExchange == InitExchange /\ [][NextExchange]_vars

\* the tool's output arrives cut anywhere, and the tool writes to standard
\* error
NextWire ==
  \/ \E e \in OneCall : ExecuteTool(e)
  \/ \E e \in OneCall : ReadPieces(e)
  \/ \E e \in OneCall : StderrData(e)
  \/ \E e \in OneCall : HandshakeTimeout(e)
  \/ \E e \in OneCall : SafetyTimeout(e)
  \/ \E e \in OneCall : ChildExit(e)
  \/ \E e \in OneCall : OnClose(e)

SpecWire == InitExchange /\ [][NextWire]_vars

(***************************************************************************)
(* Process Bridge claims                                                   *)
(***************************************************************************)
\* C1: whenever an invocation has settled, by whatever path, the executor no
\* longer holds a process and the child it spawned (if it spawned one) has
\* been sent a kill.
C1_SettledMeansKilled ==
  \A e \in Execs :
    epc[e] = "settled" =>
      /\ process[e] = "null"
      /\ child[e] # "none" => killSent[e]

\* an invocation settled by a data error while its child was still running
C1_Witness ==
  \E e \in Execs :
    /\ epc[e] = "settled" /\ outcome[e] = "toolError"
    /\ child[e] = "running" /\ killSent[e]

\* C2: when the execution timer fires while the data request is unanswered,
\* the process is killed and the invocation is rejected with an
\* execution-timeout error.
C2_ExecutionTimeoutRejects ==
  [][\A e \in Execs :
       (safetyTimer[e] = "armed" /\ safetyTimer'[e] = "fired"
          /\ epc[e] = "calling")
       => /\ killSent'[e]
          /\ process'[e] = "null"
          /\ epc'[e] = "settled"
          /\ outcome'[e] = "executionTimeout"]_vars

\* C3: when the exit of the process is observed while the handshake is
\* unanswered, the invocation is rejected with a process-crash error in that
\* step, with the handshake timer still to fire; a crash outcome never
\* changes afterwards.
C3_EarlyExitRejects ==
  [][\A e \in Execs :
       /\ (child[e] = "exited" /\ child'[e] = "closed"
             /\ ~isInitialized[e] /\ epc[e] = "handshake")
          => /\ epc'[e] = "settled"
             /\ outcome'[e] = "crash"
             /\ hsTimer'[e] = "armed"
       /\ outcome[e] = "crash"
          => epc'[e] = "settled" /\ outcome'[e] = "crash"]_vars

\* the handshake timer fired after the crash was reported
C3_Witness ==
  \E e \in Execs : outcome[e] = "crash" /\ hsTimer[e] = "fired"

\* C4: when the handshake timer fires while the handshake is unanswered, the
\* process is killed and the invocation is rejected with a handshake-timeout
\* error; no data request is ever written to that process.
C4_HandshakeTimeoutRejects ==
  [][\A e \in Execs :
       /\ (hsTimer[e] = "armed" /\ hsTimer'[e] = "fired"
             /\ ~isInitialized[e] /\ epc[e] = "handshake")
          => /\ killSent'[e]
             /\ process'[e] = "null"
             /\ epc'[e] = "settled"
             /\ outcome'[e] = "handshakeTimeout"
       /\ outcome'[e] = "handshakeTimeout"
          => \A i \in 1..Len(stdinLog'[e]) : stdinLog'[e][i] # "call"
       /\ outcome[e] = "handshakeTimeout" => outcome'[e] = "handshakeTimeout"]_vars

\* a handshake timeout, the process ended afterwards and late output arrived
C4_Witness ==
  \E e \in Execs :
    outcome[e] = "handshakeTimeout" /\ killSent[e] /\ isInitialized[e]

\* C5: every process handle, once spawned, is eventually sent a kill or has
\* ended, whatever the tool process does.
C5_EveryHandleTerminates ==
  /\ \A e \in Execs :
       (child[e] = "running") ~> (killSent[e] \/ child[e] # "running")
  /\ (iChild = "running") ~> (iKillSent \/ iChild # "running")

\* the executors' handles alone do terminate under FairSpecBridge
C5_ExecutorHandlesTerminate ==
  \A e \in Execs :
    (child[e] = "running") ~> (killSent[e] \/ child[e] # "running")

(***************************************************************************)
(* Argument and environment policy                                         *)
(***************************************************************************)
\* C6: the arguments written in the data request are, key by key, the
\* configured default where the configuration defines the key and the
\* caller's value otherwise.
C6_DefaultsOverrideCaller ==
  mStage = "called" =>
    \A k \in ArgKeys :
      mSentArgs[k] = IF mConfig.present /\ mConfig.defaultArguments[k] # Absent
                     THEN mConfig.defaultArguments[k]
                     ELSE mArgs[k]

\* caller and defaults disagree on one key, each has a key of its own
C6_Witness ==
  /\ mStage = "called"
  /\ mConfig.present
  /\ mArgs["a"] # Absent /\ mConfig.defaultArguments["a"] # Absent
  /\ mSentArgs["a"] = mConfig.defaultArguments["a"]
  /\ mArgs["b"] # Absent /\ mConfig.defaultArguments["b"] = Absent
  /\ mSentArgs["b"] = mArgs["b"]

\* the value key k has after the three layers of the environment policy
Layered(k) ==
  IF mSecrets[k] # Absent THEN mSecrets[k]
  ELSE IF mConfig.present /\ mConfig.env[k] # Absent THEN mConfig.env[k]
  ELSE mProcEnv[k]

\* C7 as stated: for every key the spawned process sees the secret, else the
\* configured value, else the gateway's value.
C7_SecretsWinEveryKey ==
  mStage \in {"spawned", "called"} => \A k \in EnvKeys : mSpawnEnv[k] = Layered(k)

\* C7 amended: that precedence holds for every key other than PATH,
\* PYTHONUNBUFFERED and PYTHONPATH; those three carry the values startServer
\* sets, whatever the secrets, the configuration and the gateway define.
C7_SecretsWinExceptBridgeKeys ==
  mStage \in {"spawned", "called"} =>
    /\ \A k \in EnvKeys \ BridgeKeys : mSpawnEnv[k] = Layered(k)
    /\ mSpawnEnv["PATH"] = newPath(mProcEnv)
    /\ mSpawnEnv["PYTHONUNBUFFERED"] = "1"
    /\ mSpawnEnv["PYTHONPATH"] = "cwd"

\* all three layers define K and a secret defines PATH
C7_Witness ==
  /\ mStage = "spawned"
  /\ mConfig.present /\ mConfig.env["K"] # Absent
  /\ mSecrets["K"] # Absent /\ mProcEnv["K"] # Absent
  /\ mSpawnEnv["K"] = mSecrets["K"]
  /\ mSecrets["PATH"] # Absent /\ mSpawnEnv["PATH"] # mSecrets["PATH"]

(***************************************************************************)
(* Session Gateway claims                                                  *)
(***************************************************************************)
\* a registration the user may reach by ownership or sharing
OwnOrShared(t, u) == tools[t].owner = u \/ tools[t].isPublic

\* C8 as stated: every list or invoke is evaluated with the identity of the
\* session's caller over exactly the registrations that caller owns plus the
\* shared ones, and never returns or resolves a private tool of another
\* caller.
C8_ConsideredOwnOrShared ==
  lastResp.kind \in {"list", "call"} =>
    /\ lastResp.user = cUser[lastResp.sid]
    /\ lastResp.considered = {t \in ToolIds : OwnOrShared(t, lastResp.user)}
    /\ \A p \in lastResp.listed : OwnOrShared(p[1], lastResp.user)
    /\ lastResp.found # 0 => OwnOrShared(lastResp.found, lastResp.user)

\* C8 amended: every list or invoke is evaluated with the identity of the
\* session's caller over exactly the registrations with status active that
\* the caller owns or that are shared, and never returns or resolves a
\* private tool of another caller.
C8_ConsideredActiveOwnOrShared ==
  lastResp.kind \in {"list", "call"} =>
    /\ lastResp.user = cUser[lastResp.sid]
    /\ lastResp.considered =
         {t \in ToolIds : tools[t].status = "active" /\ OwnOrShared(t, lastResp.user)}
    /\ \A p \in lastResp.listed : OwnOrShared(p[1], lastResp.user)
    /\ lastResp.found # 0 => OwnOrShared(lastResp.found, lastResp.user)

\* a caller asked for the capability only another caller's private, active
\* tool advertises, and it was not resolved although other tools were
\* considered
C8_Witness ==
  /\ lastResp.kind = "call"
  /\ lastResp.considered # {}
  /\ lastResp.found = 0
  /\ \E t \in ToolIds :
       /\ lastResp.name = t
       /\ tools[t].status = "active"
       /\ ~tools[t].isPublic
       /\ tools[t].owner # lastResp.user

\* C9: a session enters the registry only in the step in which the pending
\* lookup of the presented key returns a known user, and it carries that
\* user; a connection that was denied (401, 403, 500) has no session, no
\* transport and no handler; the key is looked up at most once per
\* connection, requests posted on the session cause no further lookup.
C9_SessionOnlyAfterAuth ==
  [][\A c \in Conns :
       /\ (sessions[c] = NoUser /\ sessions'[c] # NoUser)
          => /\ cPhase[c] = "auth"
             /\ KeyOwner(cKey[c]) \in Users
             /\ sessions'[c] = KeyOwner(cKey[c])
       /\ sessions'[c] # NoUser
          => cPhase'[c] = "open" /\ sessions'[c] = cUser'[c] /\ lookups'[c] = 1
       /\ c \in handlers' => cPhase'[c] = "open" /\ cUser'[c] \in Users
       /\ cPhase'[c] \in {"denied401", "denied403", "denied500"}
          => sessions'[c] = NoUser /\ c \notin handlers'
       /\ lookups'[c] <= 1]_vars

\* a request was served on an authenticated session after a single lookup
C9_Witness ==
  \E c \in Conns :
    /\ sessions[c] \in Users
    /\ lookups[c] = 1
    /\ lastResp.kind = "list" /\ lastResp.sid = c

\* C10: a session id is in the registry only while its connection is open.
C10_SessionOnlyWhileOpen ==
  \A c \in Conns : sessions[c] # NoUser => cSock[c] = "open"

(***************************************************************************)
(* Isolation and containment                                               *)
(***************************************************************************)
\* C11: in every interleaving of two invocations, the listeners of an
\* invocation act only on lines read from the standard output of the child
\* that invocation spawned, and an invocation that settled with a result or
\* an error of the tool settled on a line of its own child.
C11_OwnChildOnly ==
  \A e \in DOMAIN epc :
    /\ source[e] \subseteq {e}
    /\ outcome[e] \in {"result", "toolError"} => source[e] = {e}

\* one invocation settled with its result while the other, with its child
\* running and its data request written, settled with an error of the tool
C11_Witness ==
  /\ DOMAIN epc = Invocations
  /\ outcome[1] = "result" /\ outcome[2] = "toolError"
  /\ stdinLog[1] = stdinLog[2]
  /\ child[1] = "running" /\ child[2] = "running"

\* what one invocation's executor holds
ofInvocation(e) ==
  <<epc[e], process[e], child[e], exitCode[e], killSent[e], isInitialized[e],
    listener[e], hsTimer[e], safetyTimer[e], stdinLog[e], outcome[e], source[e]>>

\* the ways an invocation fails before its data request is answered
ContainedFailures == {"spawnError", "crash", "handshakeTimeout", "processDied"}

\* C12: a spawn failure, a process that ends before or while the bridge
\* writes to its standard input, or a handshake failure is an error of that
\* invocation only: the step leaves the gateway running and the other
\* invocation as it was, and no step ever ends the gateway.
C12_FailureContained ==
  [][/\ gatewayUp'
     /\ \A e \in DOMAIN epc :
          (outcome[e] = "none" /\ outcome'[e] \in ContainedFailures)
          => \A f \in DOMAIN epc \ {e} : ofInvocation(f)' = ofInvocation(f)]_vars

(***************************************************************************)
(* Provisioner claims                                                      *)
(***************************************************************************)
\* C13: a prepareTool call whose cache check finds the tool's directory
\* existing and non-empty returns in that step the directory path of the
\* tool, the same path every earlier call for that tool returned, having
\* done no removal, download, extraction or install, and leaves every cache
\* directory unchanged.
C13_CachedCallIsIdempotent ==
  [][\A k \in Calls :
       (ppc[k] = "readdir" /\ ppc'[k] # "readdir"
          /\ cache[pTool[k]].exists /\ hasFiles(cache[pTool[k]]))
       => /\ ppc'[k] = "returned"
          /\ pRet'[k] = toolDir(pTool[k])
          /\ \A j \in Calls :
               (pTool[j] = pTool[k] /\ pRet[j] # NoPath) => pRet'[k] = pRet[j]
          /\ pOps'[k] = {}
          /\ cache' = cache]_vars

\* a second call for a tool returned the path of the first, which had
\* downloaded, extracted and installed, without any operation of its own
C13_Witness ==
  \E j, k \in Calls :
    /\ j # k /\ pTool[j] = pTool[k]
    /\ ppc[j] = "returned" /\ {"download", "extract", "install"} \subseteq pOps[j]
    /\ ppc[k] = "returned" /\ pOps[k] = {}
    /\ pRet[k] = pRet[j]
    /\ cache[pTool[k]].deps = "full"

\* the bundle is extracted in the directory and its dependencies, when its
\* runtime family has any to install, are installed
isReady(dir, family) ==
  /\ dir.exists
  /\ dir.extracted = "full"
  /\ needsInstall(family) => dir.deps = "full"

\* C14: with the calls made one after another, failed ones included, a call
\* returns the directory path only when the bundle is extracted there and
\* its dependency installation has completed there.
C14_ReturnsOnlyReady ==
  [][\A k \in Calls :
       (ppc[k] # "returned" /\ ppc'[k] = "returned")
       => isReady(cache'[pTool[k]], bundles[pTool[k]])]_vars

(***************************************************************************)
(* Discovery Runner claims                                                 *)
(***************************************************************************)
\* the steps whose failure is to fail the registration
FailingSteps == {"clone", "deps", "secrets", "fetch", "zip", "upload", "update"}

\* the run is over: main returned or the script exited
RunEnded == rpc \in {"done", "exited"}

\* C15: once one of clone, dependency install, secret fetch,
\* handshake/enumeration, archive creation, upload or the final database
\* write has failed in a run, no later step is executed, the status is not
\* active, and the run ends with status failed and the captured message.
C15_FailedStepFailsRun ==
  \A f \in rFailed \cap FailingSteps :
    /\ \A st \in rDone : StepIndex(st) <= StepIndex(f)
    /\ reg.status # "active"
    /\ RunEnded => reg.status = "failed" /\ reg.errorMessage # ""

\* C16: when the dependency installation has failed, for a Node or a Python
\* project, the tool is not spawned, and the run ends with status failed, a
\* non-empty error message and no manifest written.
C16_FailedInstallFailsRun ==
  "deps" \in rFailed =>
    /\ "fetch" \notin rDone
    /\ iChild = "none"
    /\ RunEnded => /\ reg.status = "failed"
                   /\ reg.errorMessage # ""
                   /\ "manifest" \notin rWrote

C18_RunReachesTerminalStatus ==
  (rpc # "idle") ~> (reg.status \in {"active", "failed"})

\* C19: a registration with status active carries the manifest and the
\* bundle path this run wrote, and the run's archive is uploaded; one with
\* status failed carries no manifest of this run; the run writes the
\* manifest and the bundle path only together with status active.
C19_StatusManifestBundleTogether ==
  /\ reg.status = "active"
     => /\ {"status", "manifest", "bundle_path"} \subseteq rWrote
        /\ reg.manifest = manifestOf(iResult)
        /\ reg.bundlePath = storagePath
        /\ uploaded
  /\ reg.status = "failed"
     => /\ "manifest" \notin rWrote /\ "bundle_path" \notin rWrote
        /\ reg.manifest \in {NoManifest, OldManifest}
  /\ ("manifest" \in rWrote) = ("bundle_path" \in rWrote)
  /\ "manifest" \in rWrote => reg.status = "active"

\* the upload failed after the tools were discovered: status failed, the
\* manifest of the earlier run untouched
C19_Witness ==
  /\ reg.status = "failed"
  /\ "upload" \in rFailed
  /\ Len(iResult) > 0
  /\ reg.manifest = OldManifest

(***************************************************************************)
(* Retries                                                                 *)
(***************************************************************************)
\* how far a prepareTool call has come
PassRank(pc) ==
  CASE pc = "idle" -> 0 [] pc = "readdir" -> 1 [] pc = "removing" -> 2
    [] pc = "ensuring" -> 3 [] pc = "downloading" -> 4
    [] pc = "installing" -> 5 [] pc \in {"returned", "failed"} -> 6

\* how often message m was written
Written(log, m) == Cardinality({n \in 1..Len(log) : log[n] = m})

\* C20: one invoke makes one provisioning pass, each step of it at most
\* once, and spawns at most one child process; once the provisioning has
\* failed nothing is spawned, and once executeTool has settled, by a failure
\* or a result, it does not start over and writes no request again: the
\* initialize request and the data request are written at most once each.
C20_NoRetry ==
  [][LET i == TheInvoke IN
     /\ ppc'[i] # ppc[i] => PassRank(ppc'[i]) > PassRank(ppc[i])
     /\ ppc[i] \in {"returned", "failed"} => pOps'[i] = pOps[i]
     /\ ppc[i] # "returned" => child'[i] = "none"
     /\ (child[i] # "running" /\ child'[i] = "running") => child[i] = "none"
     /\ outcome[i] # "none"
        => /\ epc'[i] = "settled"
           /\ outcome'[i] = outcome[i]
           /\ stdinLog'[i] = stdinLog[i]
     /\ Written(stdinLog'[i], "initialize") <= 1
     /\ Written(stdinLog'[i], "call") <= 1]_vars

\* an invoke provisioned cold, its handshake timed out, and the tool's
\* answer arrived afterwards: one initialize request, nothing else written
C20_Witness ==
  LET i == TheInvoke IN
  /\ "download" \in pOps[i] /\ ppc[i] = "returned"
  /\ outcome[i] = "handshakeTimeout"
  /\ isInitialized[i]
  /\ stdinLog[i] = <<"initialize">>

(***************************************************************************)
(* Downstream protocol: what is written to the tool and what is read       *)
(***************************************************************************)
\* the requests of one invocation, in the order of the protocol
Protocol == <<"initialize", "initialized", "call">>

\* log is an initial part of the sequence full
IsPrefix(log, full) ==
  /\ Len(log) <= Len(full)
  /\ \A n \in 1..Len(log) : log[n] = full[n]

\* C21: what an executor has written to its child's standard input is an
\* initial part of: the initialize request, the initialized notification,
\* the data request, each once; the notification and the data request are
\* written only after an id-0 result was read.
C21_HandshakeOrdering ==
  \A e \in Execs :
    /\ IsPrefix(stdinLog[e], Protocol)
    /\ Len(stdinLog[e]) >= 2 => isInitialized[e]

\* C22: a read that holds no whole line with the id of the data request
\* leaves an Executing invocation pending, whatever else it holds, and a
\* read that holds no id-0 result leaves an Initializing one uninitialized,
\* even when it holds a line with the id of the data request; the data
\* exchange is settled by a tool's answer only in a read that holds a line
\* with the id of the data request, and the handshake is completed only in
\* a read that holds an id-0 result.
C22_CorrelationById ==
  [][\A e \in OneCall :
       LET isRead == lastRead'[e].tick # lastRead[e].tick
           read == lastRead'[e]
       IN /\ (isRead /\ read.at = "Executing" /\ read.call = "none")
               => /\ epc'[e] = "calling"
                  /\ outcome'[e] = "none"
          /\ (isRead /\ read.at = "Initializing" /\ ~read.init)
               => /\ epc'[e] = "handshake"
                  /\ ~isInitialized'[e]
                  /\ stdinLog'[e] = stdinLog[e]
          /\ (outcome[e] = "none" /\ outcome'[e] \in {"result", "toolError"})
               => isRead /\ read.at = "Executing" /\ read.call # "none"
          /\ (~isInitialized[e] /\ isInitialized'[e])
               => isRead /\ read.init]_vars

\* a line with id 0 and a result was read while Executing, with no line
\* carrying the id of the data request, and the invocation is still pending
C22_Witness ==
  \E e \in OneCall :
    /\ lastRead[e].at = "Executing"
    /\ lastRead[e].init /\ lastRead[e].call = "none"
    /\ epc[e] = "calling" /\ outcome[e] = "none"

\* C23: the first line with the id of the data request that callTool's
\* listener reads (the invocation is Executing: the request has been written)
\* settles the invocation in that very read, rejected when the line carries
\* an error and resolved otherwise; lines with that id further on in the
\* read change nothing, and an invocation a tool's answer has settled never
\* changes its outcome.
C23_FirstAnswerSettles ==
  [][\A e \in OneCall :
       LET isRead == lastRead'[e].tick # lastRead[e].tick
           read == lastRead'[e]
       IN /\ (isRead /\ read.at = "Executing" /\ read.call # "none")
               => /\ epc'[e] = "settled"
                  /\ outcome'[e] =
                       (IF read.call = "error" THEN "toolError" ELSE "result")
                  /\ (reply'[e].value # "none") <=> (read.call # "error")
          /\ outcome[e] \in {"result", "toolError"}
               => /\ outcome'[e] = outcome[e]
                  /\ epc'[e] = "settled"
                  /\ reply'[e] = reply[e]]_vars

\* a read held an error answer and, further on, a result with the same id:
\* the invocation is rejected
C23_Witness ==
  \E e \in OneCall :
    /\ lastRead[e].at = "Executing"
    /\ lastRead[e].call = "error" /\ lastRead[e].last = "result"
    /\ epc[e] = "settled" /\ outcome[e] = "toolError"
    /\ reply[e] = NoReply

\* C24: a response line that reaches the handler in two reads is handled as
\* if it had come in one: the read that brings the rest of an id-0 result
\* completes the handshake of an Initializing invocation, and the read that
\* brings the rest of an answer to the data request, cut while Executing,
\* settles the invocation.
C24_SplitLineHandledWhole ==
  [][\A e \in OneCall :
       LET isRead == lastRead'[e].tick # lastRead[e].tick
       IN /\ (isRead /\ epc[e] = "handshake"
                /\ cut[e] = [id |-> InitId, kind |-> "result"])
               => isInitialized'[e]
          /\ (isRead /\ epc[e] = "calling" /\ lastRead[e].at = "Executing"
                /\ cut[e].id = CallId)
               => epc'[e] = "settled"]_vars

\* C25: the error an invocation fails with when its process exits during
\* Initializing carries the exit code of the process and the text the
\* process wrote to standard error.
C25_CrashCarriesCodeAndStderr ==
  \A e \in OneCall :
    outcome[e] = "crash" =>
      /\ crashError(exitCode[e], errText[e]).code = exitCode[e]
      /\ crashError(exitCode[e], errText[e]).stderr = errText[e]

(***************************************************************************)
(* Session Gateway: which registration an invoke runs against              *)
(***************************************************************************)
\* the places of the rows that advertise the requested name
Advertising(rows, name) == {i \in 1..Len(rows) : name \in Manifest(rows[i])}

\* C26: an invoke resolves to the first row, in the order the registry
\* returned the registrations visible to the caller, whose manifest
\* advertises the requested name, and the one tool it starts is prepared
\* from that registration and gets that registration's secrets, start
\* command and configuration (env and defaultArguments); when no row
\* advertises the name nothing is started.
C26_FirstAdvertisingRegistration ==
  lastResp.kind = "call" =>
    LET hits == Advertising(lastResp.rows, lastResp.name) IN
    /\ {lastResp.rows[i] : i \in 1..Len(lastResp.rows)} = lastResp.considered
    /\ Len(lastResp.rows) = Cardinality(lastResp.considered)
    /\ hits = {} => lastResp.found = 0 /\ lastResp.launch = NoLaunch
    /\ hits # {} =>
         /\ \E i \in hits :
              /\ \A j \in hits : i <= j
              /\ lastResp.found = lastResp.rows[i]
         /\ lastResp.launch.prepared = lastResp.found
         /\ lastResp.launch.secrets = lastResp.found
         /\ lastResp.launch.command = lastResp.found
         /\ lastResp.launch.config = lastResp.found

\* two visible registrations advertise the name and the registry returned
\* the one with the greater id first: the invoke runs against that one
C26_Witness ==
  /\ lastResp.kind = "call"
  /\ Cardinality(Advertising(lastResp.rows, lastResp.name)) >= 2
  /\ lastResp.rows[1] > lastResp.rows[2]
  /\ lastResp.found = lastResp.rows[1]
  /\ lastResp.launch.command = lastResp.rows[1]

(***************************************************************************)
(* Session Gateway: the answer to an invoke                                *)
(***************************************************************************)
\* C27: whatever value an invocation resolves with, the handler answers
\* with that value itself when it has a content field and with one text
\* segment wrapping it otherwise; the translation never throws.
C27_ResultTranslated ==
  \A e \in OneCall :
    outcome[e] = "result" =>
      reply[e].sent = (IF reply[e].value = "content" THEN "same" ELSE "wrapped")

(***************************************************************************)
(* Process ownership                                                       *)
(***************************************************************************)
\* C28: each invoke runs on an executor of its own, which spawns one child
\* and never a second one: an executor that has not started is as its
\* constructor left it, with no child and nothing written; an executor
\* holds a process only while its invocation is pending and its safety
\* timer has not fired, and the process it holds is the child it spawned;
\* every child was spawned once (it got one initialize request) and is sent
\* at most one data request.
C28_OneProcessPerInvoke ==
  \A e \in Invocations :
    /\ epc[e] = "idle"
         => /\ process[e] = "null" /\ child[e] = "none"
            /\ stdinLog[e] = <<>> /\ outcome[e] = "none"
    /\ process[e] = "held"
         => /\ child[e] # "none"
            /\ outcome[e] = "none" /\ safetyTimer[e] = "armed"
    /\ child[e] # "none" => Written(stdinLog[e], "initialize") = 1
    /\ Written(stdinLog[e], "call") <= 1

\* two invokes ran to their end, each on its own child: both children got
\* the whole protocol once and have ended, neither executor holds a process
C28_Witness ==
  /\ DOMAIN epc = Invocations
  /\ \A e \in Invocations :
       /\ epc[e] = "settled" /\ process[e] = "null"
       /\ child[e] = "closed"
       /\ stdinLog[e] = Protocol

(***************************************************************************)
(* Frame: who writes the registrations                                     *)
(***************************************************************************)
\* C29: no step of the gateway (a connection opened, authenticated or
\* closed, a list or an invoke posted on a session or on an unknown id) and
\* no step of an invoke (prepareTool, the executor's handlers, in success
\* or failure) changes a registration (owner, visibility, status; the
\* manifest is fixed), the row of the Discovery Runner, a bundle, a
\* configuration or a secret.
C29_RegistrationsUntouched ==
  [][UNCHANGED <<tools, reg, bundles, mConfig, mSecrets>>]_vars

\* a session was closed after an invoke on it had resolved a tool, prepared
\* it cold and failed in the handshake, and the registrations are as they
\* were
C29_Witness ==
  /\ cSock[TheSession] = "closed" /\ cPhase[TheSession] = "open"
  /\ lastResp.kind = "call" /\ lastResp.found # 0
  /\ "download" \in pOps[TheInvoke]
  /\ outcome[TheInvoke] = "crash"
  /\ \A t \in ToolIds : tools[t].status = "active"

\* C30 (Provisioner, Python family): when the command installing the
\* project itself as a package fails, prepareTool does not fail on it: the
\* failure is a warning and the directory path is still returned; when the
\* command installing the pinned dependencies fails, prepareTool fails.
C30_ProjectInstallFailureTolerated ==
  \A k \in Calls :
    /\ pCmd[k].threw # "project"
    /\ ("project" \in pCmd[k].failed /\ pCmd[k].threw = "none"
          => ppc[k] = "returned")
    /\ (pCmd[k].failed \cap {"uvSync", "requirements"} # {}
          => ppc[k] = "failed")

\* the commands of a sequence
Range(q) == {q[i] : i \in 1..Len(q)}

C32_SecretsBeforeProvisioning ==
  [][\A i \in Execs \cap Calls :
       /\ (ppc[i] = "idle" /\ ppc'[i] # "idle" => secretsFetch[i] = "rows")
       /\ (child[i] = "none" /\ child'[i] # "none"
             => ppc'[i] = "returned" /\ secretsFetch'[i] = "rows")]_vars

\* C33: every executeTool call eventually settles (resolves or rejects)
\* whatever the tool process does, while the gateway process runs: also
\* when the tool completes the handshake and then exits or stays silent.
C33_EveryCallSettles ==
  \A e \in Execs :
    (epc[e] \in {"handshake", "calling"} /\ gatewayUp)
      ~> (epc[e] = "settled" \/ ~gatewayUp)

\* the call is past its cache check on the cold path
tookColdPath(k) ==
  ppc[k] \in {"removing", "ensuring", "downloading", "installing"}
    \/ pOps[k] # {}

\* call j is downloading, extracting or installing into the directory of
\* tool t
writingInto(j, t) ==
  pTool[j] = t /\ ppc[j] \in {"downloading", "installing"}

\* C34 (concurrent cold starts): of two prepareTool calls for one tool id
\* that both take the cold path, neither returns the directory while the
\* other is still downloading, extracting or installing into it, neither
\* removes the directory while the other is writing into it, and each one
\* that returns does so with the bundle extracted and installed there.
C34_ColdStartsDoNotInterfere ==
  [][\A k \in Calls :
       /\ (ppc[k] # "returned" /\ ppc'[k] = "returned" /\ tookColdPath(k))
          => /\ \A j \in Calls \ {k} : ~writingInto(j, pTool[k])
             /\ isReady(cache'[pTool[k]], bundles[pTool[k]])
       /\ (ppc[k] = "removing" /\ ppc'[k] # "removing")
          => \A j \in Calls \ {k} : ~writingInto(j, pTool[k])]_vars

\* the response is to an invoke whose capability name no registration
\* visible to the caller advertises
nobodyAdvertises(resp) ==
  /\ resp.kind = "call"
  /\ \A t \in resp.considered : resp.name \notin Manifest(t)

\* C35 (capability not found): an invoke whose name no registration visible
\* to the caller advertises resolves no tool and starts nothing (no
\* prepareTool call, no secrets fetch, no process) and leaves the bundle
\* cache as it is; a prepareTool call starts only for a resolved tool.
C35_NotFoundStartsNothing ==
  [][/\ (nobodyAdvertises(lastResp') /\ lastResp' # lastResp)
          => /\ lastResp'.found = 0
             /\ lastResp'.launch = NoLaunch
             /\ UNCHANGED <<cache, ppc, pOps, child, epc, secretsFetch>>
     /\ \A i \in Execs \cap Calls :
          (ppc[i] = "idle" /\ ppc'[i] # "idle")
             => ~nobodyAdvertises(lastResp) /\ pTool'[i] = lastResp.found
     /\ \A i \in Execs \cap Calls :
          (child[i] = "none" /\ child'[i] # "none") => ppc[i] = "returned"
    ]_vars

\* after an invoke of a name nobody visible advertises nothing has started
\* and the cache holds what it held
C35_Witness ==
  /\ nobodyAdvertises(lastResp)
  /\ lastResp.considered # {}
  /\ lastResp.found = 0
  /\ \A i \in Calls : ppc[i] = "idle"
  /\ \A e \in Execs : child[e] = "none"

\* the registrations a request evaluated as user u reaches: the active
\* ones that u owns or that are shared
reachableBy(u) ==
  {t \in ToolIds :
     tools[t].status = "active" /\ (tools[t].owner = u \/ tools[t].isPublic)}

\* C36 (session identity binding): a list or invoke request posted for
\* session id S is evaluated with the identity that authenticated when S
\* was opened, never with that of another session's caller, and a post for
\* an id that is not in the sessions map is answered 404 and reaches no
\* handler.
C36_RequestsUseSessionIdentity ==
  [][lastResp' # lastResp =>
       LET S == lastResp'.sid IN
       IF sessions[S] = NoUser
       THEN /\ lastResp'.kind = "404"
            /\ lastResp'.user = NoUser
            /\ lastResp'.considered = {} /\ lastResp'.listed = {}
            /\ lastResp'.found = 0
       ELSE /\ lastResp'.kind \in {"list", "call"}
            /\ cPhase[S] = "open"
            /\ lastResp'.user = cUser[S]
            /\ lastResp'.considered = reachableBy(cUser[S])]_vars

\* two sessions of different users are open and a request of the second
\* was evaluated as its own user, who sees other rows than the first
C36_Witness ==
  /\ sessions[1] = "u1" /\ sessions[2] = "u2"
  /\ lastResp.kind = "list" /\ lastResp.sid = 2
  /\ lastResp.user = "u2"
  /\ lastResp.considered # reachableBy("u1")

\* C37 (only active registrations are reachable): a registration whose
\* status is pending, building or failed when a request is handled is not
\* among the rows the request considers, none of its capabilities is in a
\* list result and no invoke resolves it, whoever owns it and although it
\* carries a manifest.
C37_OnlyActiveReachable ==
  [][lastResp' # lastResp =>
       \A t \in ToolIds :
         tools[t].status # "active" =>
           /\ t \notin lastResp'.considered
           /\ \A n \in CapNames : <<t, n>> \notin lastResp'.listed
           /\ lastResp'.found # t
           /\ lastResp'.launch.prepared # t]_vars

\* the caller's own registration has failed and is not among the rows of
\* the caller's request, which considered another registration
C37_Witness ==
  /\ lastResp.kind \in {"list", "call"}
  /\ lastResp.considered # {}
  /\ \E t \in ToolIds :
       /\ tools[t].owner = lastResp.user
       /\ tools[t].status = "failed"
       /\ Manifest(t) # {}
       /\ t \notin lastResp.considered

\* a timer of invocation e fires in the step
timerFires(e) ==
  \/ hsTimer[e] = "armed" /\ hsTimer'[e] = "fired"
  \/ safetyTimer[e] = "armed" /\ safetyTimer'[e] = "fired"

\* C38 (stale timers are harmless): when the handshake timer or the safety
\* timer of an invocation fires after the invocation has settled, the
\* invocation keeps its outcome and no kill is sent; and a timer that fires
\* never kills the process or settles the promise of another invocation.
C38_StaleTimersHarmless ==
  [][\A e \in DOMAIN epc :
       timerFires(e) =>
         /\ epc[e] = "settled" =>
              /\ epc'[e] = "settled" /\ outcome'[e] = outcome[e]
              /\ killSent'[e] = killSent[e] /\ process'[e] = process[e]
              /\ child' = child
         /\ \A f \in DOMAIN epc \ {e} :
              /\ epc'[f] = epc[f] /\ outcome'[f] = outcome[f]
              /\ killSent'[f] = killSent[f] /\ process'[f] = process[f]
              /\ child'[f] = child[f]]_vars

\* both timers of an invocation that settled on a crash have fired since,
\* and the other invocation is still waiting for its answer, unkilled
C38_Witness ==
  \E e, f \in DOMAIN epc :
    /\ e # f
    /\ epc[e] = "settled" /\ outcome[e] = "crash"
    /\ hsTimer[e] = "fired" /\ safetyTimer[e] = "fired"
    /\ epc[f] = "calling" /\ process[f] = "held" /\ ~killSent[f]

\* C39 (HTTP wrapper): every request accepted while the tool is
\* initialized receives exactly one HTTP response, the tool's answer to
\* its own message or a 504 after its timeout: never the answer to another
\* request's message, never two responses, and a response by the time its
\* timer has fired.
C39_OwnAnswerExactlyOnce ==
  \A r \in HttpReqs :
    http[r].st = "pending" =>
      /\ Len(http[r].sent) <= 1
      /\ \A i \in 1..Len(http[r].sent) :
           http[r].sent[i] # Status("504") => http[r].sent[i].answers = r
      /\ http[r].timer = "fired" => Len(http[r].sent) = 1

====
